---- MODULE Spec2Model ----
(***************************************************************************)
(* Model of the agno film-grain renderer: the WebGPU device queue, the     *)
(* GrainGenerator tile cache, the HalationProcessor, Renderer.render and   *)
(* the React effects of useRendererSync that drive them.                   *)
(*                                                                         *)
(* Device semantics used throughout (WebGPU queue timeline):               *)
(*   - queue.writeBuffer takes effect on the queue timeline at the point   *)
(*     of the call, in order with queue.submit;                            *)
(*   - passes recorded in a command encoder run only when the encoder's    *)
(*     command buffer, handed to queue.submit, is executed, and read the   *)
(*     uniform buffer contents of that moment;                             *)
(*   - onSubmittedWorkDone resolves once everything enqueued before the    *)
(*     call has executed.                                                  *)
(* Float values are carried in thousandths (0.8 -> 800).  Seeds and lags   *)
(* are below 2^31, where the Uint32Array conversion keeps the value.       *)
(***************************************************************************)
EXTENDS Integers, Sequences, FiniteSets, TLC

\* ------------------------------------------------------------------ bounds
MaxGenCalls == 2
MaxInflight == 2
AbortAfter == 3
BaseSeed == 1

\* ------------------------------------------------------- program constants
TILE_COUNT == 8
BASE_TILE_SIZE == 256
AR_STRENGTH == 950
NORMALIZE_SCALE == 150

VARIABLES
  dev,   \* the GPU device: queue timeline, uniform buffers, textures, canvas
  gg,    \* GrainGenerator fields
  hp,    \* HalationProcessor fields
  rr,    \* Renderer fields
  app,   \* React state of App / WebGpuCanvas
  js,    \* suspended async calls and timers of the page
  obs,   \* observations of what the last calls did
  sh,    \* one shader invocation on its own: its inputs and what it computed
  wg,    \* the useWebGpu hook: its state and the init() call it started
  ci     \* the useCanvasInteraction hook: view state, drag and touch refs

vars == <<dev, gg, hp, rr, app, js, obs, sh, wg, ci>>

\* the whole state as one record, so that a handler is a function on it
Cur == [dev |-> dev, gg |-> gg, hp |-> hp, rr |-> rr, app |-> app,
        js |-> js, obs |-> obs]

Commit(S) ==
  /\ dev' = S.dev
  /\ gg' = S.gg
  /\ hp' = S.hp
  /\ rr' = S.rr
  /\ app' = S.app
  /\ js' = S.js
  /\ obs' = S.obs
  /\ sh' = sh
  /\ wg' = wg
  /\ ci' = ci

\* ------------------------------------------------------------ device layer
BufferNames ==
  {"grain.noise", "grain.ar", "grain.blur", "grain.normalize",
   "hal.threshold", "hal.blur", "hal.upsampleBlend",
   "r.blend", "r.view", "r.debug"}

\* buffer sizes in 4-byte words
BufferWords(b) == IF b \in {"r.blend", "r.view"} THEN 8 ELSE 4

Max(a, b) == IF a >= b THEN a ELSE b
Min(a, b) == IF a <= b THEN a ELSE b
CeilDiv(a, b) == (a + b - 1) \div b

RECURSIVE FloorLog2(_)
FloorLog2(n) == IF n <= 1 THEN 0 ELSE 1 + FloorLog2(n \div 2)

Zeros(n) == [i \in 1..n |-> 0]

\* queue.writeBuffer(buffer, byteOffset, data): off is the word offset
WriteWords(buf, off, words) ==
  [i \in 1..Len(buf) |->
     IF i > off /\ i <= off + Len(words) THEN words[i - off] ELSE buf[i]]

Stage(st, u, src) == [st |-> st, u |-> u, src |-> src]

\* a texture: immutable size and level count, per-layer level-0 content,
\* and the number of mip levels regenerated since the last level-0 write
NewTexture(layers, w, h, levels) ==
  [layers |-> [i \in 1..layers |-> << >>], w |-> w, h |-> h,
   levels |-> levels, mips |-> 0]

SetLayer(td, id, layer, content) ==
  IF id \in 1..Len(td) /\ layer \in 1..Len(td[id].layers)
  THEN [td EXCEPT ![id].layers[layer] = content, ![id].mips = 0]
  ELSE td

Level0(td, id) == td[id].layers[1]

\* seed each layer of a tile array was generated from (-1: never written)
LayerSeed(content) ==
  IF Len(content) > 0 /\ content[1].st = "noise" THEN content[1].u[1] ELSE -1

TileSeeds(td, id) == [i \in 1..Len(td[id].layers) |-> LayerSeed(td[id].layers[i])]

\* host-side records
WriteStep(buf, off, words) ==
  [h |-> "write", buf |-> buf, off |-> off, words |-> words,
   pipe |-> "", in |-> 0, in2 |-> 0, out |-> 0, arg |-> 0]

PassStep(pipe, in, in2, out, buf) ==
  [h |-> "pass", buf |-> buf, off |-> 0, words |-> << >>,
   pipe |-> pipe, in |-> in, in2 |-> in2, out |-> out, arg |-> 0]

\* a pass or queue copy that carries one more argument (mip level, image)
PassStepArg(pipe, in, out, arg) ==
  [PassStep(pipe, in, 0, out, "") EXCEPT !.arg = arg]

\* device.createTexture / GPUTexture.destroy on the state record
CreateTexture(S, layers, w, h, levels) ==
  [S EXCEPT !.dev.texData = Append(@, NewTexture(layers, w, h, levels)),
            !.dev.texAlive = @ \cup {Len(S.dev.texData) + 1}]

DestroyTexture(S, id) == [S EXCEPT !.dev.texAlive = @ \ {id}]

IsWrite(s) == s.h = "write"
IsPass(s) == s.h = "pass"

PassTextures(p) == {p.in, p.in2, p.out} \ {0}

RECURSIVE StepsTextures(_)
StepsTextures(steps) ==
  IF steps = << >> THEN {}
  ELSE PassTextures(Head(steps)) \cup StepsTextures(Tail(steps))

\* queue entries.  A "submit" entry stands for the writeBuffer calls the
\* host made since its previous queue operation, followed by the command
\* buffer it then submitted.
\* live: every texture the passes bind was live when they were recorded
SubmitEntry(writes, passes, ok, live, call) ==
  [op |-> "submit", writes |-> writes, passes |-> passes, ok |-> ok,
   live |-> live, call |-> call]

FenceEntry(call) ==
  [op |-> "fence", writes |-> << >>, passes |-> << >>, ok |-> TRUE,
   live |-> TRUE, call |-> call]

\* What the queue timeline receives from host code that issued `steps` in
\* program order and then called queue.submit([encoder.finish()]): every
\* writeBuffer is already on the timeline when the command buffer arrives.
\* A command buffer that references a destroyed texture or buffer fails
\* validation at submit and does not execute.
SubmitEncoded(steps, alive, bufsOk, call) ==
  LET passes == SelectSeq(steps, IsPass)
      live == StepsTextures(passes) \subseteq alive
  IN  <<SubmitEntry(SelectSeq(steps, IsWrite), passes, bufsOk /\ live, live, call)>>

\* execution of one pass of a command buffer submitted by generateTiles call
\* `call` (0: other code); G = [td, ub, cv, nw]
ExecPass(G, p, call) ==
  LET u == IF p.buf = "" THEN << >> ELSE G.ub[p.buf]
      td == G.td
  IN  CASE p.pipe = "noise" ->
             [G EXCEPT !.td = SetLayer(td, p.out, 1, <<Stage("noise", u, << >>)>>)]
        [] p.pipe \in {"ar", "ycbcr", "blur", "threshold", "downsample", "hblur"} ->
             [G EXCEPT !.td = SetLayer(td, p.out, 1,
                                Append(Level0(td, p.in), Stage(p.pipe, u, << >>)))]
        [] p.pipe = "normalize" ->
             [G EXCEPT !.td = SetLayer(td, p.out, u[2] + 1,
                                Append(Level0(td, p.in), Stage(p.pipe, u, << >>))),
                       !.nw = @ \o <<[call |-> call, layer |-> u[2] + 1]>>]
        [] p.pipe = "copy" ->
             [G EXCEPT !.td = SetLayer(td, p.out, 1,
                                <<Stage("image", <<p.arg>>, << >>)>>)]
        [] p.pipe = "mip" ->
             [G EXCEPT !.td[p.out].mips = IF @ = p.arg - 1 THEN p.arg ELSE @]
        [] p.pipe = "blend" ->
             [G EXCEPT !.td = SetLayer(td, p.out, 1,
                                Append(Level0(td, p.in),
                                       Stage("blend", u, TileSeeds(td, p.in2))))]
        [] p.pipe = "upsample" ->
             [G EXCEPT !.td = SetLayer(td, p.out, 1,
                                Append(Level0(td, p.in),
                                       Stage("upsample", u,
                                             <<Len(Level0(td, p.in2))>>)))]
        [] p.pipe = "clear" ->
             [G EXCEPT !.cv = <<Stage("clear", << >>, << >>)>>]
        [] p.pipe = "draw" ->
             [G EXCEPT !.cv = Append(Level0(td, p.in),
                                     Stage("draw", u, <<td[p.in].mips, td[p.in].levels>>))]
        [] p.pipe = "debug" ->
             [G EXCEPT !.cv = Append(td[p.in].layers[u[1] + 1],
                                     Stage("debug", u, << >>))]
        [] OTHER -> G

RECURSIVE ExecPasses(_, _, _)
ExecPasses(G, passes, call) ==
  IF passes = << >> THEN G
  ELSE ExecPasses(ExecPass(G, Head(passes), call), Tail(passes), call)

RECURSIVE ApplyWrites(_, _)
ApplyWrites(ub, writes) ==
  IF writes = << >> THEN ub
  ELSE LET w == Head(writes)
       IN  ApplyWrites([ub EXCEPT ![w.buf] = WriteWords(@, w.off, w.words)],
                       Tail(writes))

ExecEntry(G, e) ==
  IF e.op = "submit"
  THEN LET G1 == [G EXCEPT !.ub = ApplyWrites(@, e.writes)]
       IN  IF e.ok THEN ExecPasses(G1, e.passes, e.call) ELSE G1
  ELSE G

\* the device state after each entry is computed before the next entry runs
RECURSIVE ExecEntries(_, _)
ExecEntries(G, es) ==
  IF es = << >> THEN G
  ELSE CHOOSE r \in {ExecEntries(g, Tail(es)) : g \in {ExecEntry(G, Head(es))}} : TRUE

\* One step of the device: it executes the head of the timeline up to and
\* including the next fence (everything, when no fence is pending).  Finer
\* progress is not observable: the host sees the device only through fences
\* and later passes, which run in timeline order.
RECURSIVE HeadRun(_)
HeadRun(q) ==
  IF q = << >> THEN 0
  ELSE IF Head(q).op = "fence" THEN 1
  ELSE 1 + HeadRun(Tail(q))

\* ---------------------------------------------------------- GrainGenerator
GrainParamsOf(seed, grainSize, arLag) ==
  [seed |-> seed, grainSize |-> grainSize, arLag |-> arLag]

getBlurSpecs ==
  << [kernelRadius |-> 1, sigma |-> 800],
     [kernelRadius |-> 7, sigma |-> 3750],
     [kernelRadius |-> 5, sigma |-> 2750] >>

\* variant: grainSize is part of the cache key
tilesValidWithGrainSize(g, params) ==
  IF g.grainTileArray = 0 \/ g.lastParams = << >> THEN FALSE
  ELSE /\ g.lastParams[1].seed = params.seed
       /\ g.lastParams[1].arLag = params.arLag
       /\ g.lastParams[1].grainSize = params.grainSize

tilesValid(g, params) ==
  IF g.grainTileArray = 0 \/ g.lastParams = << >> THEN FALSE
  ELSE g.lastParams[1].seed = params.seed /\ g.lastParams[1].arLag = params.arLag

\* variant: the vertical pass is bound like the horizontal one (no swap)
BlurChannelStepsNoSwap(channel, currentInput, currentOutput) ==
  LET spec == getBlurSpecs[channel + 1]
  IN  << WriteStep("grain.blur", 0, <<spec.kernelRadius>>),
         WriteStep("grain.blur", 1, <<spec.sigma>>),
         WriteStep("grain.blur", 2, <<0, channel>>),
         PassStep("blur", currentInput, 0, currentOutput, "grain.blur"),
         WriteStep("grain.blur", 2, <<1, channel>>),
         PassStep("blur", currentInput, 0, currentOutput, "grain.blur") >>

\* one iteration of the channel loop: horizontal pass, swap, vertical pass
BlurChannelSteps(channel, currentInput, currentOutput) ==
  LET spec == getBlurSpecs[channel + 1]
  IN  << WriteStep("grain.blur", 0, <<spec.kernelRadius>>),
         WriteStep("grain.blur", 1, <<spec.sigma>>),
         WriteStep("grain.blur", 2, <<0, channel>>),
         PassStep("blur", currentInput, 0, currentOutput, "grain.blur"),
         WriteStep("grain.blur", 2, <<1, channel>>),
         PassStep("blur", currentOutput, 0, currentInput, "grain.blur") >>

\* variant: the normalize pass always targets slot 0
generateSingleTileStepsSlot0(tileIndex, params, tileSize, w1, w2, tiles) ==
  << WriteStep("grain.noise", 0, <<params.seed, tileIndex, tileSize, 0>>),
     PassStep("noise", 0, 0, w1, "grain.noise"),
     WriteStep("grain.ar", 0, <<AR_STRENGTH>>),
     WriteStep("grain.ar", 1, <<params.arLag, 0, 0>>),
     PassStep("ar", w1, 0, w2, "grain.ar"),
     PassStep("ycbcr", w2, 0, w1, "") >>
  \o BlurChannelSteps(0, w1, w2)
  \o BlurChannelSteps(1, w1, w2)
  \o BlurChannelSteps(2, w1, w2)
  \o << WriteStep("grain.normalize", 0, <<NORMALIZE_SCALE>>),
        WriteStep("grain.normalize", 1, <<0, 0, 0>>),
        PassStep("normalize", w1, 0, tiles, "grain.normalize") >>

generateSingleTileSteps(tileIndex, params, tileSize, w1, w2, tiles) ==
  << WriteStep("grain.noise", 0, <<params.seed, tileIndex, tileSize, 0>>),
     PassStep("noise", 0, 0, w1, "grain.noise"),
     WriteStep("grain.ar", 0, <<AR_STRENGTH>>),
     WriteStep("grain.ar", 1, <<params.arLag, 0, 0>>),
     PassStep("ar", w1, 0, w2, "grain.ar"),
     PassStep("ycbcr", w2, 0, w1, "") >>
  \o BlurChannelSteps(0, w1, w2)
  \o BlurChannelSteps(1, w1, w2)
  \o BlurChannelSteps(2, w1, w2)
  \o << WriteStep("grain.normalize", 0, <<NORMALIZE_SCALE>>),
        WriteStep("grain.normalize", 1, <<tileIndex, 0, 0>>),
        PassStep("normalize", w1, 0, tiles, "grain.normalize") >>

\* variant: the noise uniforms are written after the command buffer is
\* submitted, so the noise pass reads what the previous submission left
generateSingleTileLateWrite(tileIndex, params, tileSize, w1, w2, tiles, alive, bufsOk, call) ==
  LET steps == generateSingleTileSteps(tileIndex, params, tileSize, w1, w2, tiles)
      IsNoiseWrite(s) == IsWrite(s) /\ s.buf = "grain.noise"
      IsOther(s) == ~IsNoiseWrite(s)
  IN  SubmitEncoded(SelectSeq(steps, IsOther), alive, bufsOk, call)
      \o SubmitEncoded(SelectSeq(steps, IsNoiseWrite), alive, bufsOk, call)

generateSingleTile(tileIndex, params, tileSize, w1, w2, tiles, alive, bufsOk, call) ==
  SubmitEncoded(generateSingleTileSteps(tileIndex, params, tileSize, w1, w2, tiles),
                alive, bufsOk, call)

\* the loop `for (let i = 0; i < n; i++) generateSingleTile(i, ...)`
RECURSIVE TileLoop(_, _, _, _, _, _, _, _)
TileLoop(n, params, w1, w2, tiles, alive, bufsOk, call) ==
  IF n = 0 THEN << >>
  ELSE TileLoop(n - 1, params, w1, w2, tiles, alive, bufsOk, call)
       \o generateSingleTile(n - 1, params, BASE_TILE_SIZE, w1, w2, tiles,
                             alive, bufsOk, call)


\* queue.submit of the passes recorded by `steps`
Submit(S, steps, bufsOk, call) ==
  [S EXCEPT !.dev.queue = @ \o SubmitEncoded(steps, S.dev.texAlive, bufsOk, call)]

ensureTextures(S, tileSize) ==
  IF S.gg.currentTileSize = tileSize THEN S
  ELSE LET S1 == DestroyTexture(DestroyTexture(DestroyTexture(S,
                   S.gg.workTexture1), S.gg.workTexture2), S.gg.grainTileArray)
           n == Len(S.dev.texData)
           S2 == CreateTexture(S1, 1, tileSize, tileSize, 1)
           S3 == CreateTexture(S2, 1, tileSize, tileSize, 1)
           S4 == CreateTexture(S3, TILE_COUNT, tileSize, tileSize, 1)
       IN  [S4 EXCEPT !.gg.workTexture1 = n + 1,
                      !.gg.workTexture2 = n + 2,
                      !.gg.grainTileArray = n + 3,
                      !.gg.currentTileSize = tileSize]

IsSubmit(e) == e.op = "submit"

\* what one generateTiles call did, read off the states before and after
CallObs(kind, params, S, T) ==
  [kind |-> kind, params |-> params, ret |-> T.gg.grainTileArray,
   submits |-> Len(SelectSeq(SubSeq(T.dev.queue, Len(S.dev.queue) + 1,
                                    Len(T.dev.queue)), IsSubmit)),
   hadArray |-> S.gg.grainTileArray # 0, prevArray |-> S.gg.grainTileArray,
   prevAlive |-> S.gg.grainTileArray \in T.dev.texAlive,
   prevLast |-> S.gg.lastParams]

GenRecord(call, params, tiles, ctx) ==
  [call |-> call, params |-> params, tiles |-> tiles, done |-> FALSE,
   writes |-> Zeros(TILE_COUNT), ctx |-> ctx]

SettledObs(g, ok) ==
  [ok |-> ok, call |-> g.call, params |-> g.params, writes |-> g.writes,
   done |-> g.done]

IsHit(S, params) == tilesValid(S.gg, params) /\ S.gg.grainTileArray # 0

\* generateTiles up to its first suspension.  On a cache hit it returns at
\* once.  On a miss with failAt = TILE_COUNT all tiles are submitted and the
\* call suspends at onSubmittedWorkDone (ctx: what the caller's continuation
\* captured); with failAt < TILE_COUNT a device call throws while tile
\* failAt is being recorded.
generateTiles(S, params, failAt, ctx) ==
  IF IsHit(S, params)
  THEN [S EXCEPT !.obs.lastCall = <<CallObs("hit", params, S, S)>>]
  ELSE LET call == S.obs.callCount + 1
           S1 == ensureTextures(S, BASE_TILE_SIZE)
           g == S1.gg
           failed == <<[ok |-> FALSE, call |-> call, params |-> params,
                        writes |-> Zeros(TILE_COUNT), done |-> FALSE]>>
       IN  IF g.workTexture1 = 0 \/ g.workTexture2 = 0 \/ g.grainTileArray = 0
           THEN \* throw new Error('Failed to create grain textures')
                [S1 EXCEPT !.obs.callCount = call,
                           !.obs.lastCall = <<CallObs("throw", params, S, S1)>>,
                           !.obs.lastSettled = failed]
           ELSE LET S2 == [S1 EXCEPT !.dev.queue = @ \o
                             TileLoop(failAt, params, g.workTexture1, g.workTexture2,
                                      g.grainTileArray, S1.dev.texAlive,
                                      g.buffersAlive, call)]
                IN  IF failAt = TILE_COUNT
                    THEN [S2 EXCEPT
                            !.dev.queue = Append(@, FenceEntry(call)),
                            !.js.gens = Append(@, GenRecord(call, params,
                                                            g.grainTileArray, ctx)),
                            !.obs.callCount = call,
                            !.obs.lastCall = <<CallObs("miss", params, S, S2)>>]
                    ELSE [S2 EXCEPT
                            !.obs.callCount = call,
                            !.obs.lastCall = <<CallObs("abort", params, S, S2)>>,
                            !.obs.lastSettled = failed]

\* the continuation of generateTiles after
\* `await this.device.queue.onSubmittedWorkDone()`
generateTilesResume(S) ==
  LET g == Head(S.js.gens)
  IN  [S EXCEPT !.gg.lastParams = <<[seed |-> g.params.seed,
                                     grainSize |-> g.params.grainSize,
                                     arLag |-> g.params.arLag]>>,
                !.js.gens = Tail(@),
                !.obs.lastSettled = <<SettledObs(g, TRUE)>>]

\* the awaited promise rejects: generateTiles rejects, lastParams untouched
generateTilesReject(S) ==
  [S EXCEPT !.js.gens = Tail(@),
            !.obs.lastSettled = <<SettledObs(Head(S.js.gens), FALSE)>>]

\* variant: the tile array is dropped without being destroyed
grainDestroyKeepTiles(S) ==
  LET S1 == DestroyTexture(DestroyTexture(S, S.gg.workTexture1), S.gg.workTexture2)
  IN  [S1 EXCEPT !.gg.buffersAlive = FALSE,
                 !.gg.workTexture1 = 0,
                 !.gg.workTexture2 = 0,
                 !.gg.grainTileArray = 0]

\* GrainGenerator.destroy()
grainDestroy(S) ==
  LET S1 == DestroyTexture(DestroyTexture(DestroyTexture(S,
              S.gg.workTexture1), S.gg.workTexture2), S.gg.grainTileArray)
  IN  [S1 EXCEPT !.gg.buffersAlive = FALSE,
                 !.gg.workTexture1 = 0,
                 !.gg.workTexture2 = 0,
                 !.gg.grainTileArray = 0]

\* credit the layer writes of an executed command buffer to its call
RECURSIVE CountWrites(_, _, _)
CountWrites(writes, nw, call) ==
  IF nw = << >> THEN writes
  ELSE CountWrites(
         [i \in 1..Len(writes) |->
            IF Head(nw).call = call /\ i = Head(nw).layer
            THEN writes[i] + 1 ELSE writes[i]],
         Tail(nw), call)

\* one step of the device
gpuStep(S) ==
  LET q == S.dev.queue
      k == HeadRun(q)
      last == q[k]
      G == ExecEntries([td |-> S.dev.texData, ub |-> S.dev.ubuf,
                        cv |-> S.dev.canvas, nw |-> << >>], SubSeq(q, 1, k))
  IN  [S EXCEPT
         !.dev.queue = SubSeq(q, k + 1, Len(q)),
         !.dev.texData = G.td,
         !.dev.ubuf = G.ub,
         !.dev.canvas = G.cv,
         !.js.gens = [i \in 1..Len(@) |->
                        [@[i] EXCEPT
                           !.writes = CountWrites(@, G.nw, S.js.gens[i].call),
                           !.done = @ \/ (last.op = "fence"
                                          /\ last.call = S.js.gens[i].call)]]]

GpuStep ==
  /\ dev.queue # << >>
  /\ Commit(gpuStep(Cur))

\* ------------------------------------------------------- HalationProcessor
isEnabled(h) == h.params.enabled

isReady(h) ==
  /\ h.highlightTexture # 0
  /\ h.downsampledTexture # 0
  /\ h.blurPingTexture # 0
  /\ h.blurPongTexture # 0
  /\ h.outputTexture # 0

\* HalationProcessor.setParams: merge the given fields
setHalationParams(S, params) == [S EXCEPT !.hp.params = params]

destroyTextures(S) ==
  LET h == S.hp
      S1 == DestroyTexture(DestroyTexture(DestroyTexture(DestroyTexture(
              DestroyTexture(S, h.highlightTexture), h.downsampledTexture),
              h.blurPingTexture), h.blurPongTexture), h.outputTexture)
  IN  [S1 EXCEPT !.hp.highlightTexture = 0,
                 !.hp.downsampledTexture = 0,
                 !.hp.blurPingTexture = 0,
                 !.hp.blurPongTexture = 0,
                 !.hp.outputTexture = 0]

\* HalationProcessor.destroy()
halationDestroy(S) == destroyTextures(S)

\* How a device.createTexture call of an operation goes wrong: the call
\* number `at` of the operation (0: none) either throws, or returns an
\* invalid texture object and reports the error on the device.
NoFailure == [at |-> 0, mode |-> "none"]

Throws(f, k) == f.at = k /\ f.mode = "throw"

\* device.createTexture as call number k of an operation with failure f
CreateTextureAlloc(S, layers, w, h, levels, f, k) ==
  IF f.at = k
  THEN [S EXCEPT !.dev.texData = Append(@, NewTexture(layers, w, h, levels)),
                 !.obs.allocFailed = TRUE]
  ELSE CreateTexture(S, layers, w, h, levels)

HalationSlots ==
  <<"highlightTexture", "downsampledTexture", "blurPingTexture",
    "blurPongTexture", "outputTexture">>

\* variant: quarter size rounded down
dsSizeFloor(n) == Max(1, n \div 4)

\* Math.max(1, Math.ceil(n / 4))
dsSize(n) == Max(1, CeilDiv(n, 4))

\* the five createTexture calls of resize, from call k on; `base` is the
\* number of createTexture calls the caller made before
RECURSIVE createWorkTextures(_, _, _, _, _, _, _)
createWorkTextures(S, k, width, height, mipLevelCount, f, base) ==
  IF k > Len(HalationSlots) THEN S
  ELSE IF Throws(f, base + k) THEN [S EXCEPT !.obs.allocFailed = TRUE]
  ELSE LET full == k \in {1, 5}
           S1 == CreateTextureAlloc(S, 1,
                   IF full THEN width ELSE dsSize(width),
                   IF full THEN height ELSE dsSize(height),
                   IF k = 5 THEN mipLevelCount ELSE 1, f, base + k)
           S2 == [S1 EXCEPT !.hp[HalationSlots[k]] = Len(S.dev.texData) + 1]
       IN  createWorkTextures(S2, k + 1, width, height, mipLevelCount, f, base)

\* variant: existing work textures are kept whatever the new size is
resizeAllocOnce(S, width, height, mipLevelCount, f, base) ==
  IF S.hp.outputTexture # 0
  THEN S
  ELSE LET S0 == destroyTextures(S)
           S1 == [S0 EXCEPT !.hp.imageWidth = width, !.hp.imageHeight = height]
       IN  createWorkTextures(S1, 1, width, height, mipLevelCount, f, base)

\* HalationProcessor.resize with createTexture failure f
resizeAlloc(S, width, height, mipLevelCount, f, base) ==
  IF width = S.hp.imageWidth /\ height = S.hp.imageHeight /\ S.hp.outputTexture # 0
  THEN S
  ELSE LET S0 == destroyTextures(S)
           S1 == [S0 EXCEPT !.hp.imageWidth = width, !.hp.imageHeight = height]
       IN  createWorkTextures(S1, 1, width, height, mipLevelCount, f, base)

resize(S, width, height, mipLevelCount) ==
  resizeAlloc(S, width, height, mipLevelCount, NoFailure, 0)

\* Math.max(1, Math.round(radius / 4)) for an integer radius
dsRadius(radius) == Max(1, (radius + 2) \div 4)

\* dsRadius / 3, in thousandths
sigma(radius) == (dsRadius(radius) * 1000) \div 3

\* the writeBuffer calls and recorded passes of process, in program order
processSteps(h, inputTexture) ==
  << WriteStep("hal.threshold", 0,
               <<h.params.threshold, h.imageWidth, h.imageHeight, 0>>),
     PassStep("threshold", inputTexture, 0, h.highlightTexture, "hal.threshold"),
     PassStep("downsample", h.highlightTexture, 0, h.downsampledTexture, ""),
     WriteStep("hal.blur", 0, <<dsRadius(h.params.radius)>>),
     WriteStep("hal.blur", 1, <<sigma(h.params.radius)>>),
     WriteStep("hal.blur", 2, <<0, 0>>),
     PassStep("hblur", h.downsampledTexture, 0, h.blurPingTexture, "hal.blur"),
     WriteStep("hal.blur", 2, <<1, 0>>),
     PassStep("hblur", h.blurPingTexture, 0, h.blurPongTexture, "hal.blur"),
     WriteStep("hal.upsampleBlend", 0,
               <<h.params.strength, h.imageWidth, h.imageHeight, 0>>),
     PassStep("upsample", inputTexture, h.blurPongTexture, h.outputTexture,
              "hal.upsampleBlend") >>

\* the passes of Renderer.generateMipmaps for levels from..levels-1
RECURSIVE MipSteps(_, _, _)
MipSteps(texture, level, mipLevelCount) ==
  IF level >= mipLevelCount THEN << >>
  ELSE <<PassStepArg("mip", texture, texture, level)>>
       \o MipSteps(texture, level + 1, mipLevelCount)

generateMipmaps(S, texture) ==
  Submit(S, MipSteps(texture, 1, S.dev.texData[texture].levels), TRUE, 0)

\* variant: the output texture is returned without regenerating its mips
processNoMipmaps(S, inputTexture) ==
  IF ~isReady(S.hp) THEN S
  ELSE LET S1 == Submit(S, processSteps(S.hp, inputTexture), TRUE, 0)
       IN  [S1 EXCEPT !.obs.lastProcess = <<S.hp.params>>]

\* HalationProcessor.process: the state after the call, and what it returns
process(S, inputTexture) ==
  IF ~isReady(S.hp) THEN S
  ELSE LET S1 == Submit(S, processSteps(S.hp, inputTexture), TRUE, 0)
           S2 == generateMipmaps(S1, S.hp.outputTexture)
       IN  [S2 EXCEPT !.obs.lastProcess = <<S.hp.params>>]

processResult(S, inputTexture) ==
  IF ~isReady(S.hp) THEN inputTexture ELSE S.hp.outputTexture

\* ----------------------------------------------------------------- Renderer
setGrainParams(S, params) == [S EXCEPT !.rr.grainParams = <<params>>]

setBlendParams(S, params) == [S EXCEPT !.rr.blendParams = params]

setViewState(S, state) == [S EXCEPT !.rr.viewState = state]

setDebugState(S, show, tileIndex) ==
  [S EXCEPT !.rr.debugState = [showGrainTile |-> show, tileIndex |-> tileIndex]]

\* Math.floor(Math.log2(Math.max(width, height))) + 1
MipLevelCount(width, height) == FloorLog2(Max(width, height)) + 1

\* Renderer.uploadImage with createTexture failure f
uploadImageAlloc(S, image, f) ==
  LET S1 == DestroyTexture(DestroyTexture(S, S.rr.imageTexture),
                           S.rr.blendOutputTexture)
      S2 == [S1 EXCEPT !.rr.imageWidth = image.width,
                       !.rr.imageHeight = image.height]
      levels == MipLevelCount(image.width, image.height)
      n == Len(S.dev.texData)
  IN  IF Throws(f, 1) THEN [S2 EXCEPT !.obs.allocFailed = TRUE]
      ELSE
      LET S3 == [CreateTextureAlloc(S2, 1, image.width, image.height, levels, f, 1)
                   EXCEPT !.rr.imageTexture = n + 1]
          \* copyExternalImageToTexture is a queue operation of its own
          S4 == Submit(S3, <<PassStepArg("copy", 0, n + 1, image.id)>>, TRUE, 0)
          S5 == generateMipmaps(S4, n + 1)
      IN  IF Throws(f, 2) THEN [S5 EXCEPT !.obs.allocFailed = TRUE]
          ELSE
          LET S6 == [CreateTextureAlloc(S5, 1, image.width, image.height, levels, f, 2)
                       EXCEPT !.rr.blendOutputTexture = n + 2]
          IN  resizeAlloc(S6, image.width, image.height, levels, f, 2)

uploadImage(S, image) == uploadImageAlloc(S, image, NoFailure)

\* Renderer.destroy()
rendererDestroy(S) ==
  LET S1 == DestroyTexture(DestroyTexture(S, S.rr.imageTexture),
                           S.rr.blendOutputTexture)
      S2 == [S1 EXCEPT !.rr.imageTexture = 0, !.rr.blendOutputTexture = 0]
  IN  grainDestroy(halationDestroy(S2))

\* canvas of the page: fixed size in device pixels
CanvasWidth == 8
CanvasHeight == 4

ClearPass == PassStep("clear", 0, 0, 0, "")

\* view uniform write and the final draw of displayTexture
FinalSteps(r, displayTexture) ==
  << ClearPass,
     WriteStep("r.view", 0,
               <<r.viewState.zoom, r.viewState.centerX, r.viewState.centerY,
                 (CanvasWidth * 1000) \div CanvasHeight,
                 (r.imageWidth * 1000) \div r.imageHeight, 0, 0, 0>>),
     PassStep("draw", displayTexture, 0, 0, "r.view") >>

\* variant: the blend stage is skipped when strength and toe are neutral
blendActiveNonNeutral(S) ==
  /\ S.rr.blendParams.enabled
  /\ S.gg.grainTileArray # 0
  /\ S.rr.blendOutputTexture # 0
  /\ S.rr.grainParams # << >>
  /\ (S.rr.blendParams.strength # 0 \/ S.rr.blendParams.toe # 0)

\* the condition of `if (this.blendParams.enabled && grainTiles && ...)`
blendActive(S) ==
  /\ S.rr.blendParams.enabled
  /\ S.gg.grainTileArray # 0
  /\ S.rr.blendOutputTexture # 0
  /\ S.rr.grainParams # << >>

BlendSteps(S) ==
  LET r == S.rr
      b == r.blendParams
  IN  << ClearPass,
         WriteStep("r.blend", 0,
                   <<b.strength, b.saturation, b.toe, b.midtoneBias,
                     r.grainParams[1].grainSize, r.imageWidth, r.imageHeight>>),
         WriteStep("r.blend", 7, <<r.grainParams[1].seed>>),
         PassStep("blend", r.imageTexture, S.gg.grainTileArray,
                  r.blendOutputTexture, "r.blend") >>

\* variant: halation after blend is fed the uploaded image
blendDisplayTextureRaw(r) == r.imageTexture

\* `displayTexture = this.blendOutputTexture`
blendDisplayTexture(r) == r.blendOutputTexture

\* variant: the debug view is drawn over the image
DebugStepsOverImage(S) ==
  LET r == S.rr
      tileSize == IF r.grainParams # << >>
                  THEN (256 * r.grainParams[1].grainSize + 500) \div 1000
                  ELSE 256
  IN  FinalSteps(r, r.imageTexture)
      \o << WriteStep("r.debug", 0, <<r.debugState.tileIndex>>),
            WriteStep("r.debug", 1, <<tileSize, CanvasWidth, CanvasHeight>>),
            PassStep("debug", S.gg.grainTileArray, 0, 0, "r.debug") >>

DebugSteps(S) ==
  LET r == S.rr
      tileSize == IF r.grainParams # << >>
                  THEN (256 * r.grainParams[1].grainSize + 500) \div 1000
                  ELSE 256
  IN  << ClearPass,
         WriteStep("r.debug", 0, <<r.debugState.tileIndex>>),
         WriteStep("r.debug", 1, <<tileSize, CanvasWidth, CanvasHeight>>),
         PassStep("debug", S.gg.grainTileArray, 0, 0, "r.debug") >>

\* passes of the queue entries, each tagged with the index of its submit
RECURSIVE SubmittedPasses(_, _)
SubmittedPasses(entries, k) ==
  IF entries = << >> THEN << >>
  ELSE [i \in 1..Len(Head(entries).passes) |->
          [pipe |-> Head(entries).passes[i].pipe, in |-> Head(entries).passes[i].in,
           in2 |-> Head(entries).passes[i].in2, out |-> Head(entries).passes[i].out,
           sub |-> k]]
       \o SubmittedPasses(Tail(entries), k + 1)

\* what one render call was given and what it submitted
RenderObs(S, T) ==
  [blendParams |-> S.rr.blendParams, grainParams |-> S.rr.grainParams,
   debug |-> S.rr.debugState.showGrainTile,
   imageTexture |-> S.rr.imageTexture,
   blendOutputTexture |-> S.rr.blendOutputTexture,
   tiles |-> S.gg.grainTileArray,
   halation |-> isEnabled(S.hp) /\ isReady(S.hp),
   passes |-> SubmittedPasses(SubSeq(T.dev.queue, Len(S.dev.queue) + 1,
                                     Len(T.dev.queue)), 1)]

\* Renderer.render(context)
render(S) ==
  LET r == S.rr
      halation == isEnabled(S.hp) /\ isReady(S.hp)
      T == IF r.debugState.showGrainTile /\ S.gg.grainTileArray # 0
           THEN Submit(S, DebugSteps(S), TRUE, 0)
           ELSE IF r.imageTexture = 0
           THEN Submit(S, <<ClearPass>>, TRUE, 0)
           ELSE IF blendActive(S)
           THEN LET S1 == Submit(S, BlendSteps(S), TRUE, 0)
                    S2 == generateMipmaps(S1, r.blendOutputTexture)
                    S3 == IF halation THEN process(S2, blendDisplayTexture(r))
                          ELSE S2
                    displayTexture ==
                      IF halation THEN processResult(S2, blendDisplayTexture(r))
                      ELSE r.blendOutputTexture
                IN  Submit(S3, FinalSteps(r, displayTexture), TRUE, 0)
           ELSE IF halation
           THEN LET S1 == Submit(S, <<ClearPass>>, TRUE, 0)
                    S2 == process(S1, r.imageTexture)
                IN  Submit(S2, FinalSteps(r, processResult(S1, r.imageTexture)),
                           TRUE, 0)
           ELSE Submit(S, FinalSteps(r, r.imageTexture), TRUE, 0)
  IN  [T EXCEPT !.obs.lastRender = <<RenderObs(S, T)>>]

\* Renderer.updateGrain() up to its first suspension
updateGrain(S, ctx) ==
  IF S.rr.grainParams # << >>
  THEN generateTiles(S, S.rr.grainParams[1], TILE_COUNT, ctx)
  ELSE S

\* ------------------------------------------------------------------ shaders
\* One invocation of a compute shader's main, on the values it loads.
\* rgba8unorm texels are [r, g, b, a] in 0..255; rgba16float texels and f32
\* uniforms are in thousandths.
Clamp(x, lo, hi) == IF x < lo THEN lo ELSE IF x > hi THEN hi ELSE x

Rgb(r, g, b) == [r |-> r, g |-> g, b |-> b]

Texel(r, g, b, a) == [r |-> r, g |-> g, b |-> b, a |-> a]

Channels == {"r", "g", "b"}

\* CHANNEL_SCALES = vec3f(1.2, 1.0, 1.5)
CHANNEL_SCALES == Rgb(1200, 1000, 1500)

\* dot(c, LUMA_COEFFS) for c in units of 1/unit, in thousandths
Luma(c, unit) == ((2126 * c.r + 7152 * c.g + 722 * c.b) \div 10) \div unit

\* floor(sqrt(n))
ISqrt(n) == CHOOSE k \in 0..1000 : k * k <= n /\ (k + 1) * (k + 1) > n

\* pow(x, 1 / max(bias, 0.001)) for the exponents 2, 1 and 1/2
PowInv(x, bias) ==
  CASE bias = 500 -> (x * x) \div 1000
    [] bias = 1000 -> x
    [] bias = 2000 -> ISqrt(x * 1000)

luminance_response(lum, bias) ==
  PowInv(Clamp((4 * lum * (1000 - lum)) \div 1000, 0, 1000), bias)

\* (grain_raw - 0.5) * params.strength * 0.5 * CHANNEL_SCALES
grain_deviation(grain_raw, strength) ==
  [c \in Channels |->
     ((((grain_raw[c] - 500) * strength) \div 1000) * CHANNEL_SCALES[c]) \div 2000]

\* textureStore of a colour in units of 1/(255 * 10^6) to rgba8unorm, alpha 1
StoreUnorm(x) ==
  Texel((Clamp(x.r, 0, 255000000) + 500000) \div 1000000,
        (Clamp(x.g, 0, 255000000) + 500000) \div 1000000,
        (Clamp(x.b, 0, 255000000) + 500000) \div 1000000, 255)

\* blend.wgsl main for one pixel: image is the input texel, grain_raw what
\* sample_grain_patchwork returned for it (the tile texels that seed and
\* grain_size select)
blend_main(image, grain_raw, params) ==
  LET dev1 == grain_deviation(grain_raw, params.strength)
      grain1 == [c \in Channels |-> 1000 + dev1[c]]
      gray == grain1.g
      grain2 == [c \in Channels |->
                   gray + ((grain1[c] - gray) * params.saturation) \div 1000]
      response == luminance_response(Luma(image, 255), params.midtoneBias)
      grain_final == [c \in Channels |->
                        1000 + ((grain2[c] - 1000) * response) \div 1000]
      blended == [c \in Channels |->
                    (255000 - (255 - image[c]) * grain_final[c]) * (1000 - params.toe)
                    + params.toe * 255000]
  IN  StoreUnorm(blended)

\* upsample-blend.wgsl main for one pixel: halation_raw is the bilinear
\* sample of the blurred highlights (which threshold and radius shaped)
upsample_main(image, halation_raw, strength) ==
  LET glow_lum == Luma(halation_raw, 1000)
      halation_color == Rgb(glow_lum, (glow_lum * 150) \div 1000, 0)
  IN  StoreUnorm([c \in Channels |->
                    image[c] * 1000000 + halation_color[c] * strength * 2 * 255])

\* u32 values as <<high, low>> 16-bit halves, so that wrapping arithmetic
\* stays within the integers the checker has
W16 == 65536

U32FromInt(n) == <<(n \div W16) % W16, n % W16>>

U32Add(a, b) ==
  <<(a[1] + b[1] + (a[2] + b[2]) \div W16) % W16, (a[2] + b[2]) % W16>>

\* a * k mod 2^32 for 0 <= k < 2^15
U32MulSmall(a, k) ==
  <<(a[1] * k + (a[2] * k) \div W16) % W16, (a[2] * k) % W16>>

\* variant: the tile index does not enter the seed
tile_seed_shared(seed, tile_index) == seed

\* params.seed + params.tile_index * 1000u
tile_seed(seed, tile_index) == U32Add(seed, U32FromInt(tile_index * 1000))

\* pixel.x * 1973u + pixel.y * 9277u + frame_seed * 26699u
init_seed(x, y, frame_seed) ==
  U32Add(U32Add(U32FromInt(x * 1973), U32FromInt(y * 9277)),
         U32MulSmall(frame_seed, 26699))

\* the initial generator states of all pixels of all tiles of one tile set
TileSetStates(seed, tileSize) ==
  {init_seed(x, y, tile_seed(seed, t)) :
     x \in 0..(tileSize - 1), y \in 0..(tileSize - 1), t \in 0..(TILE_COUNT - 1)}

\* ------------------------------------------------- useRendererSync effects
DEBOUNCE_MS == 60

\* the ImageBitmap shown by the page
TestImage == [id |-> 1, width |-> 4, height |-> 2]

DEFAULT_PARAMS ==
  [seed |-> BaseSeed,
   grainEnabled |-> TRUE, grainStrength |-> 500, grainSize |-> 1000,
   grainSaturation |-> 700,
   filmEnabled |-> TRUE, filmToe |-> 0, filmMidtoneBias |-> 1000,
   halationEnabled |-> FALSE, halationStrength |-> 300,
   halationThreshold |-> 800, halationRadius |-> 20,
   halationMonochrome |-> FALSE]

\* dependency lists of the effects
GrainDeps(a) == <<a.params.seed, a.params.grainSize>>

BlendDeps(a) ==
  <<a.showOriginal, a.params.grainEnabled, a.params.grainStrength,
    a.params.grainSaturation, a.params.filmEnabled, a.params.filmToe,
    a.params.filmMidtoneBias>>

HalationDeps(a) ==
  <<a.showOriginal, a.params.halationEnabled, a.params.halationStrength,
    a.params.halationThreshold, a.params.halationRadius,
    a.params.halationMonochrome>>

renderIf(S, canvasContext) == IF canvasContext THEN render(S) ELSE S

viewEffect(S) ==
  IF ~S.app.canvasContext THEN S
  ELSE render(setViewState(S, S.app.viewState))

\* variant: the cleanup leaves the pending timer alone
grainEffectCleanupNone(S) == S

\* the cleanup of the grain effect: clearTimeout(timeoutId)
grainEffectCleanup(S) ==
  [S EXCEPT !.js.timers = SelectSeq(@, LAMBDA t : t.id # S.js.timeoutId)]

\* the grain effect: setGrainParams now, updateGrain in DEBOUNCE_MS
grainEffect(S) ==
  LET canvasContext == S.app.canvasContext
      S1 == setGrainParams(S, GrainParamsOf(S.app.params.seed,
                                            S.app.params.grainSize, 2))
      id == S.obs.changes + 1
  IN  [S1 EXCEPT !.js.timers = Append(@, [id |-> id, left |-> DEBOUNCE_MS,
                                          ctx |-> canvasContext]),
                 !.js.timeoutId = id]

\* variant: a disabled grain or film effect still passes its slider values
blendEffectPassesSliders(S) ==
  LET p == S.app.params
      S1 == setBlendParams(S,
              [enabled |-> ~S.app.showOriginal /\ (p.grainEnabled \/ p.filmEnabled),
               strength |-> p.grainStrength,
               saturation |-> p.grainSaturation,
               toe |-> p.filmToe,
               midtoneBias |-> p.filmMidtoneBias])
  IN  renderIf(S1, S.app.canvasContext)

blendEffect(S) ==
  LET p == S.app.params
      S1 == setBlendParams(S,
              [enabled |-> ~S.app.showOriginal /\ (p.grainEnabled \/ p.filmEnabled),
               strength |-> IF p.grainEnabled THEN p.grainStrength ELSE 0,
               saturation |-> p.grainSaturation,
               toe |-> IF p.filmEnabled THEN p.filmToe ELSE 0,
               midtoneBias |-> IF p.filmEnabled THEN p.filmMidtoneBias ELSE 1000])
  IN  renderIf(S1, S.app.canvasContext)

\* variant: halation stays enabled while the original is shown
halationEffectIgnoresOriginal(S) ==
  LET p == S.app.params
      S1 == setHalationParams(S,
              [enabled |-> p.halationEnabled,
               strength |-> p.halationStrength,
               threshold |-> p.halationThreshold,
               radius |-> p.halationRadius,
               monochrome |-> p.halationMonochrome])
  IN  renderIf(S1, S.app.canvasContext)

halationEffect(S) ==
  LET p == S.app.params
      S1 == setHalationParams(S,
              [enabled |-> ~S.app.showOriginal /\ p.halationEnabled,
               strength |-> p.halationStrength,
               threshold |-> p.halationThreshold,
               radius |-> p.halationRadius,
               monochrome |-> p.halationMonochrome])
  IN  renderIf(S1, S.app.canvasContext)

uploadEffect(S) ==
  renderIf(uploadImage(S, S.app.image), S.app.canvasContext)

\* bookkeeping of a run of the grain effect: a change that finds the timer
\* of the previous change still pending continues that burst
NoteChange(S, T) ==
  [T EXCEPT !.obs.changes = @ + 1,
            !.obs.sinceChange = 0,
            !.obs.fires = 0,
            !.obs.burst = IF S.js.timers # << >> THEN @ + 1 ELSE 1,
            !.obs.lastChange =
               <<[gensBefore |-> [i \in 1..Len(S.js.gens) |-> S.js.gens[i].call],
                  gensAfter |-> [i \in 1..Len(T.js.gens) |-> T.js.gens[i].call],
                  queueKept |-> /\ Len(T.dev.queue) >= Len(S.dev.queue)
                                /\ SubSeq(T.dev.queue, 1, Len(S.dev.queue)) = S.dev.queue,
                  timersBefore |-> Len(S.js.timers),
                  timersAfter |-> Len(T.js.timers)]>>]

\* first mount of WebGpuCanvas: every effect runs, in declaration order,
\* before the container has been measured (canvasContextRef.current = null)
mount(S) ==
  LET S0 == [S EXCEPT !.app.mounted = TRUE]
      S1 == viewEffect(S0)
      S2 == NoteChange(S1, grainEffect(S1))
      S3 == blendEffect(S2)
      S4 == halationEffect(S3)
  IN  uploadEffect(S4)

\* a state update of App followed by the re-render of WebGpuCanvas: the
\* effects whose dependencies changed run again, in declaration order
rerender(S, params, showOriginal) ==
  LET S0 == [S EXCEPT !.app.params = params, !.app.showOriginal = showOriginal]
      S1 == IF GrainDeps(S0.app) # GrainDeps(S.app)
            THEN NoteChange(S0, grainEffect(grainEffectCleanup(S0)))
            ELSE S0
      S2 == IF BlendDeps(S0.app) # BlendDeps(S.app) THEN blendEffect(S1) ELSE S1
  IN  IF HalationDeps(S0.app) # HalationDeps(S.app) THEN halationEffect(S2) ELSE S2

\* the container is measured or resized: configure the canvas and render
configureCanvas(S) == render([S EXCEPT !.app.canvasContext = TRUE])

\* Shift+D
toggleDebug(S) ==
  IF ~S.app.canvasContext THEN S
  ELSE render(setDebugState(S, ~S.rr.debugState.showGrainTile,
                            S.rr.debugState.tileIndex))

\* key 0
debugOff(S) ==
  IF ~S.app.canvasContext THEN S
  ELSE render(setDebugState(S, FALSE, S.rr.debugState.tileIndex))

\* keys 1..8, only while the debug view is on
selectDebugTile(S, key) ==
  IF ~S.app.canvasContext \/ ~S.rr.debugState.showGrainTile THEN S
  ELSE render(setDebugState(S, S.rr.debugState.showGrainTile, key - 1))

\* App hands WebGpuCanvas another image: the upload effect runs
loadImage(S, image) == uploadEffect([S EXCEPT !.app.image = image])

\* the promise of updateGrain settled: `.then(() => { if (canvasContext) ... })`
updateGrainThen(S, ctx) == renderIf(S, ctx)

\* the timer callback
timerFire(S, t) ==
  LET S0 == [S EXCEPT !.js.timers = SelectSeq(@, LAMBDA x : x.id # t.id)]
      S1 == updateGrain(S0, t.ctx)
      S2 == IF Len(S1.js.gens) = Len(S0.js.gens)
            THEN updateGrainThen(S1, t.ctx)
            ELSE S1
  IN  [S2 EXCEPT !.obs.fires = @ + 1,
                 !.obs.lastFire =
                    <<[elapsed |-> S.obs.sinceChange,
                       params |-> IF S.rr.grainParams # << >>
                                  THEN <<S1.obs.lastCall[1].params>> ELSE << >>,
                       latest |-> GrainParamsOf(S.app.params.seed,
                                                S.app.params.grainSize, 2),
                       burst |-> S.obs.burst]>>]

RECURSIVE MinLeft(_)
MinLeft(timers) ==
  IF Len(timers) = 1 THEN timers[1].left
  ELSE Min(timers[1].left, MinLeft(Tail(timers)))

\* time passes, up to the moment the next timer is due
tick(S, ms) ==
  LET d == Min(ms, MinLeft(S.js.timers))
  IN  [S EXCEPT !.js.timers = [i \in 1..Len(@) |-> [@[i] EXCEPT !.left = @ - d]],
                !.obs.sinceChange = Min(DEBOUNCE_MS, @ + d)]

\* ------------------------------------------------------------ initial state
\* a base parameter set and its three one-field variations
AllGrainParams ==
  { GrainParamsOf(BaseSeed, 1000, 2),
    GrainParamsOf(BaseSeed, 2000, 2),
    GrainParamsOf(BaseSeed + 1, 1000, 2),
    GrainParamsOf(BaseSeed, 1000, 1) }

\* ------------------------------------------------- useCanvasInteraction
\* View numbers are in thousandths.  Client coordinates are in thousandths
\* of the canvas rect, measured from its top left corner.  A float is a
\* finite number, +Infinity or NaN; an infinity only ever arises as a
\* newZoom, which zoomToward clamps before it reaches a sum.
Num(v) == [k |-> "num", v |-> v]

NaN == [k |-> "nan", v |-> 0]

Infinity == [k |-> "inf", v |-> 0]

IsNum(a) == a.k = "num"

FAdd(a, b) == IF IsNum(a) /\ IsNum(b) THEN Num(a.v + b.v) ELSE NaN

FSub(a, b) == IF IsNum(a) /\ IsNum(b) THEN Num(a.v - b.v) ELSE NaN

FMul(a, b) ==
  IF a.k = "nan" \/ b.k = "nan" THEN NaN
  ELSE IF IsNum(a) /\ IsNum(b) THEN Num((a.v * b.v) \div 1000)
  ELSE IF (IsNum(a) /\ a.v = 0) \/ (IsNum(b) /\ b.v = 0) THEN NaN
  ELSE Infinity

FDiv(a, b) ==
  IF a.k = "nan" \/ b.k = "nan" THEN NaN
  ELSE IF IsNum(a) /\ IsNum(b)
  THEN IF b.v # 0 THEN Num((a.v * 1000) \div b.v)
       ELSE IF a.v = 0 THEN NaN ELSE Infinity
  ELSE IF IsNum(a) THEN Num(0)
  ELSE IF IsNum(b) THEN Infinity
  ELSE NaN

\* Math.min / Math.max: NaN if either argument is NaN
MathMin(a, b) ==
  IF a.k = "nan" \/ b.k = "nan" THEN NaN
  ELSE IF a.k = "inf" THEN b
  ELSE IF b.k = "inf" THEN a
  ELSE IF a.v <= b.v THEN a ELSE b

MathMax(a, b) ==
  IF a.k = "nan" \/ b.k = "nan" THEN NaN
  ELSE IF a.k = "inf" \/ b.k = "inf" THEN Infinity
  ELSE IF a.v >= b.v THEN a ELSE b

MIN_ZOOM == 100
MAX_ZOOM == 32000
ZOOM_STEP == 1200

DEFAULT_VIEW_STATE == [zoom |-> Num(1000), centerX |-> Num(500), centerY |-> Num(500)]

zoomToward(newZoom, targetX, targetY, currentZoom, currentCenterX, currentCenterY) ==
  LET clampedZoom == MathMax(Num(MIN_ZOOM), MathMin(Num(MAX_ZOOM), newZoom))
      zoomRatio == FDiv(currentZoom, clampedZoom)
      newCenterX == FSub(targetX, FMul(FSub(targetX, currentCenterX), zoomRatio))
      newCenterY == FSub(targetY, FMul(FSub(targetY, currentCenterY), zoomRatio))
  IN  [zoom |-> clampedZoom, centerX |-> newCenterX, centerY |-> newCenterY]

\* the measured container, at devicePixelRatio 1, and the loaded image
containerSize == [width |-> CanvasWidth, height |-> CanvasHeight]

imageWidth == TestImage.width

imageHeight == TestImage.height

getAspectScaleFactors ==
  LET aspectCanvas == (containerSize.width * 1000) \div containerSize.height
      aspectImage == (imageWidth * 1000) \div imageHeight
  IN  IF aspectImage > aspectCanvas
      THEN [scaleX |-> 1000, scaleY |-> (aspectImage * 1000) \div aspectCanvas]
      ELSE [scaleX |-> (aspectCanvas * 1000) \div aspectImage, scaleY |-> 1000]

\* canvas position to image coordinates under the current view
screenToImageCoords(c, canvasX, canvasY) ==
  LET f == getAspectScaleFactors
      correctedX == ((canvasX - 500) * f.scaleX) \div 1000 + 500
      correctedY == ((canvasY - 500) * f.scaleY) \div 1000 + 500
  IN  [x |-> FAdd(FDiv(Num(correctedX - 500), c.viewState.zoom), c.viewState.centerX),
       y |-> FAdd(FDiv(Num(correctedY - 500), c.viewState.zoom), c.viewState.centerY)]

setViewStateHook(c, v) == [c EXCEPT !.viewState = v]

handleWheel(c, canvasX, canvasY, zoomIn) ==
  LET v == c.viewState
      image == screenToImageCoords(c, canvasX, canvasY)
      zoomFactor == IF zoomIn THEN ZOOM_STEP ELSE 1000000 \div ZOOM_STEP
      newZoom == FMul(v.zoom, Num(zoomFactor))
  IN  setViewStateHook(c, zoomToward(newZoom, image.x, image.y,
                                     v.zoom, v.centerX, v.centerY))

\* the view after a drag by (rawDeltaX, rawDeltaY) from a start centre
DragView(c, rawDeltaX, rawDeltaY, startCenterX, startCenterY) ==
  LET f == getAspectScaleFactors
      deltaX == FDiv(Num((rawDeltaX * f.scaleX) \div 1000), c.viewState.zoom)
      deltaY == FDiv(Num((rawDeltaY * f.scaleY) \div 1000), c.viewState.zoom)
  IN  [zoom |-> c.viewState.zoom,
       centerX |-> FSub(startCenterX, deltaX),
       centerY |-> FSub(startCenterY, deltaY)]

\* touches: n touch points; (x, y) is the first touch, or, with two, their
\* centre (getTouchCenter), and distance is getTouchDistance of the two
DragTouchState(c, t) ==
  [type |-> "drag", startX |-> t.x, startY |-> t.y,
   startCenterX |-> c.viewState.centerX, startCenterY |-> c.viewState.centerY]

PinchTouchState(c, t) ==
  LET imageCoords == screenToImageCoords(c, t.x, t.y)
  IN  [type |-> "pinch", startDistance |-> t.distance,
       startZoom |-> c.viewState.zoom,
       pinchCenterX |-> imageCoords.x, pinchCenterY |-> imageCoords.y,
       startCenterX |-> c.viewState.centerX, startCenterY |-> c.viewState.centerY]

handleTouchStart(c, t) ==
  IF t.n = 1
  THEN [c EXCEPT !.touchStateRef = <<DragTouchState(c, t)>>, !.isDragging = TRUE]
  ELSE IF t.n = 2
  THEN [c EXCEPT !.touchStateRef = <<PinchTouchState(c, t)>>, !.isDragging = FALSE]
  ELSE c

handleTouchMove(c, t) ==
  IF c.touchStateRef = << >> THEN c
  ELSE LET touchState == c.touchStateRef[1]
       IN  IF touchState.type = "drag" /\ t.n = 1
           THEN setViewStateHook(c, DragView(c, t.x - touchState.startX,
                                             t.y - touchState.startY,
                                             touchState.startCenterX,
                                             touchState.startCenterY))
           ELSE IF touchState.type = "pinch" /\ t.n = 2
           THEN LET scale == FDiv(Num(t.distance), Num(touchState.startDistance))
                    newZoom == FMul(touchState.startZoom, scale)
                IN  setViewStateHook(c, zoomToward(newZoom,
                                                   touchState.pinchCenterX,
                                                   touchState.pinchCenterY,
                                                   touchState.startZoom,
                                                   touchState.startCenterX,
                                                   touchState.startCenterY))
           ELSE IF t.n = 2 /\ touchState.type = "drag"
           THEN [c EXCEPT !.touchStateRef = <<PinchTouchState(c, t)>>]
           ELSE c

handleTouchEnd(c, t) ==
  IF t.n = 0
  THEN [c EXCEPT !.touchStateRef = << >>, !.isDragging = FALSE]
  ELSE IF t.n = 1 /\ c.touchStateRef # << >> /\ c.touchStateRef[1].type = "pinch"
  THEN [c EXCEPT !.touchStateRef = <<DragTouchState(c, t)>>, !.isDragging = TRUE]
  ELSE c

handleMouseDown(c, button, x, y) ==
  IF button # 0 THEN c
  ELSE [c EXCEPT !.isDragging = TRUE,
                 !.dragStartRef = <<[x |-> x, y |-> y,
                                     centerX |-> c.viewState.centerX,
                                     centerY |-> c.viewState.centerY]>>]

handleMouseMove(c, x, y) ==
  IF ~c.isDragging \/ c.dragStartRef = << >> THEN c
  ELSE LET start == c.dragStartRef[1]
       IN  setViewStateHook(c, DragView(c, x - start.x, y - start.y,
                                        start.centerX, start.centerY))

handleMouseUp(c) == [c EXCEPT !.isDragging = FALSE, !.dragStartRef = << >>]

handleZoomIn(c) ==
  LET v == c.viewState
  IN  setViewStateHook(c, zoomToward(FMul(v.zoom, Num(ZOOM_STEP)), v.centerX,
                                     v.centerY, v.zoom, v.centerX, v.centerY))

handleZoomOut(c) ==
  LET v == c.viewState
  IN  setViewStateHook(c, zoomToward(FDiv(v.zoom, Num(ZOOM_STEP)), v.centerX,
                                     v.centerY, v.zoom, v.centerX, v.centerY))

handleFitToWindow(c) == setViewStateHook(c, DEFAULT_VIEW_STATE)

handleActualSize(c) ==
  LET v == c.viewState
      imageAspect == (imageWidth * 1000) \div imageHeight
      canvasAspect == (containerSize.width * 1000) \div containerSize.height
      baseScale == IF imageAspect > canvasAspect
                   THEN (containerSize.width * 1000) \div imageWidth
                   ELSE (containerSize.height * 1000) \div imageHeight
      targetZoom == FDiv(Num(1000), Num(baseScale))
  IN  setViewStateHook(c, zoomToward(targetZoom, v.centerX, v.centerY,
                                     v.zoom, v.centerX, v.centerY))

\* the hook after its first render; last: the handler that ran last and
\* the zoom it found
InitInteraction ==
  ci = [viewState |-> DEFAULT_VIEW_STATE, isDragging |-> FALSE,
        dragStartRef |-> << >>, touchStateRef |-> << >>,
        events |-> 0, last |-> << >>]

InitDev ==
  dev = [queue |-> << >>,
         ubuf |-> [b \in BufferNames |-> Zeros(BufferWords(b))],
         texData |-> << >>,
         texAlive |-> {},
         canvas |-> << >>]

InitGen ==
  gg = [grainTileArray |-> 0, workTexture1 |-> 0, workTexture2 |-> 0,
        currentTileSize |-> 0, lastParams |-> << >>, buffersAlive |-> TRUE]

InitHalation ==
  hp = [highlightTexture |-> 0, downsampledTexture |-> 0, blurPingTexture |-> 0,
        blurPongTexture |-> 0, outputTexture |-> 0,
        imageWidth |-> 0, imageHeight |-> 0,
        params |-> [enabled |-> FALSE, strength |-> 300, threshold |-> 800,
                    radius |-> 20, monochrome |-> FALSE]]

InitRenderer ==
  rr = [imageTexture |-> 0, imageWidth |-> 0, imageHeight |-> 0,
        blendOutputTexture |-> 0, grainParams |-> << >>,
        blendParams |-> [enabled |-> TRUE, strength |-> 500, saturation |-> 700,
                         toe |-> 0, midtoneBias |-> 1000],
        debugState |-> [showGrainTile |-> FALSE, tileIndex |-> 0],
        viewState |-> [zoom |-> 1000, centerX |-> 500, centerY |-> 500]]

InitApp ==
  app = [mounted |-> FALSE, params |-> DEFAULT_PARAMS, showOriginal |-> FALSE,
         image |-> TestImage, canvasContext |-> FALSE,
         viewState |-> [zoom |-> 1000, centerX |-> 500, centerY |-> 500]]

InitJs == js = [gens |-> << >>, timers |-> << >>, timeoutId |-> 0]

InitObs ==
  obs = [callCount |-> 0, lastCall |-> << >>, lastSettled |-> << >>,
         lastRender |-> << >>, lastProcess |-> << >>,
         changes |-> 0, sinceChange |-> 0, fires |-> 0, burst |-> 0,
         lastFire |-> << >>, lastChange |-> << >>,
         allocFailed |-> FALSE, lastTexOp |-> << >>, texOps |-> 0,
         failures |-> 0]

\* the state after `new Renderer(ctx)`, before WebGpuCanvas mounts
InitPage ==
  /\ InitDev /\ InitGen /\ InitHalation /\ InitRenderer /\ InitApp
  /\ InitInteraction
            /\ InitJs /\ InitObs

NoInvocation == [fn |-> "", in |-> << >>, out |-> << >>]

\* ---------------------------------------------------------------- useWebGpu
NoGpuMessage ==
  "WebGpu is not supported in this browser. Please use Chrome 113+ or Edge 113+."
NoAdapterMessage == "Failed to get WebGpu adapter."
\* the message of the error requestDevice rejects with
DeviceMessage == "requestDevice failed"
FallbackMessage == "Failed to initialize WebGPU"

\* what the browser offers: navigator.gpu, the adapter requestAdapter
\* resolves with, and how requestDevice settles ("ok", rejected with an
\* Error, rejected with something that is not an Error)
Environments ==
  { [gpu |-> FALSE, adapter |-> FALSE, device |-> "ok"],
    [gpu |-> TRUE, adapter |-> FALSE, device |-> "ok"],
    [gpu |-> TRUE, adapter |-> TRUE, device |-> "error"],
    [gpu |-> TRUE, adapter |-> TRUE, device |-> "other"],
    [gpu |-> TRUE, adapter |-> TRUE, device |-> "ok"] }

WebGpuState(status, error) == [status |-> status, error |-> error]

\* useState({ status: 'loading' }) before the effect has run
HookOf(env) ==
  [env |-> env, mounted |-> "no", destroyed |-> FALSE, pc |-> "none",
   reason |-> "", state |-> WebGpuState("loading", ""),
   inits |-> 0, adapterRequests |-> 0, sets |-> 0, lateSets |-> 0,
   seen |-> << >>]

\* the hook of a page whose Renderer exists
ReadyHook ==
  [HookOf([gpu |-> TRUE, adapter |-> TRUE, device |-> "ok"]) EXCEPT
     !.mounted = "yes", !.pc = "done", !.state = WebGpuState("ready", ""),
     !.inits = 1, !.adapterRequests = 1, !.sets = 1,
     !.seen = <<"loading">>]

Rejected(w, message) == [w EXCEPT !.pc = "rejected", !.reason = message]

\* initWebGpu up to its first await
initWebGpu(w) ==
  LET w1 == [w EXCEPT !.inits = @ + 1]
  IN  IF ~w.env.gpu THEN Rejected(w1, NoGpuMessage)
      ELSE [w1 EXCEPT !.pc = "requestAdapter", !.adapterRequests = @ + 1]

\* initWebGpu after `await navigator.gpu.requestAdapter(...)`
adapterSettled(w) ==
  IF ~w.env.adapter THEN Rejected(w, NoAdapterMessage)
  ELSE [w EXCEPT !.pc = "requestDevice"]

\* initWebGpu after `await adapter.requestDevice()`
deviceSettled(w) ==
  CASE w.env.device = "ok" -> [w EXCEPT !.pc = "resolved"]
    [] w.env.device = "error" -> Rejected(w, DeviceMessage)
    [] OTHER -> Rejected(w, "")

\* React's setState; lateSets counts calls on an unmounted component
setState(w, st) ==
  [w EXCEPT !.state = st, !.sets = @ + 1,
            !.lateSets = IF w.mounted = "gone" THEN @ + 1 ELSE @]

\* variant: the continuation sets the state without looking at `destroyed`
initSettledUnguarded(w) ==
  LET w1 == [w EXCEPT !.pc = "done"]
  IN  IF w.pc = "resolved" THEN setState(w1, WebGpuState("ready", ""))
      ELSE setState(w1, WebGpuState("error",
                          IF w.reason # "" THEN w.reason ELSE FallbackMessage))

\* init() after `await initWebGpu()`: the try branch or the catch branch
initSettled(w) ==
  LET w1 == [w EXCEPT !.pc = "done"]
  IN  IF w.destroyed THEN w1
      ELSE IF w.pc = "resolved" THEN setState(w1, WebGpuState("ready", ""))
      ELSE setState(w1, WebGpuState("error",
                          IF w.reason # "" THEN w.reason ELSE FallbackMessage))

\* first render and the effect: `let destroyed = false; init()`
useEffectMount(w) ==
  initWebGpu([w EXCEPT !.mounted = "yes", !.destroyed = FALSE,
                       !.seen = Append(@, w.state.status)])

\* the effect's cleanup
useEffectCleanup(w) == [w EXCEPT !.mounted = "gone", !.destroyed = TRUE]

\* App renders again and reads gpu.status
hookRender(w) == [w EXCEPT !.seen = Append(@, w.state.status)]

Init == InitPage /\ sh = NoInvocation /\ wg = ReadyHook

\* ------------------------------------------------------------- SpecGen
\* A live GrainGenerator driven directly through generateTiles.

CanCall(params) ==
  IsHit(Cur, params)
  \/ (obs.callCount < MaxGenCalls /\ Len(js.gens) < MaxInflight)

GenCallHit ==
  \E p \in AllGrainParams :
    IsHit(Cur, p) /\ Commit(generateTiles(Cur, p, TILE_COUNT, FALSE))

GenCallMiss ==
  \E p \in AllGrainParams :
    ~IsHit(Cur, p) /\ CanCall(p) /\ Commit(generateTiles(Cur, p, TILE_COUNT, FALSE))

GenCallAbort ==
  \E p \in AllGrainParams :
    /\ ~IsHit(Cur, p) /\ CanCall(p) /\ AbortAfter < TILE_COUNT
    /\ Commit(generateTiles(Cur, p, AbortAfter, FALSE))

GenResolve ==
  /\ js.gens # << >>
  /\ Head(js.gens).done
  /\ Commit(updateGrainThen(generateTilesResume(Cur), Head(js.gens).ctx))

GenReject ==
  /\ js.gens # << >>
  /\ Commit(generateTilesReject(Cur))

NextGen ==
  \/ GenCallHit
  \/ GenCallMiss
  \/ GenCallAbort
  \/ GenResolve
  \/ GenReject
  \/ GpuStep

SpecGen == Init /\ [][NextGen]_vars

\* ------------------------------------------------------------- the page
MaxChanges == 3
MaxBacklog == 0
TickMs == 20

Seeds == {BaseSeed, BaseSeed + 1}
GrainSizes == {1000, 2000}
GrainStrengths == {0, 500}

\* a timer that is due runs before any later event
NoDueTimer == \A i \in 1..Len(js.timers) : js.timers[i].left > 0

HostReady == app.mounted /\ NoDueTimer

\* An event that renders waits until the device has caught up with all but
\* MaxBacklog queue entries.  The queue is first-in first-out and the page
\* observes the device only through onSubmittedWorkDone, so what a render
\* reads does not depend on how far the device had got when it was submitted.
RenderReady == HostReady /\ Len(dev.queue) <= MaxBacklog

SetParams(params) == Commit(rerender(Cur, params, app.showOriginal))

Mount == ~app.mounted /\ Commit(mount(Cur))

ConfigureCanvas == RenderReady /\ Commit(configureCanvas(Cur))

SetSeed ==
  \E s \in Seeds \ {app.params.seed} :
    HostReady /\ obs.changes < MaxChanges
    /\ SetParams([app.params EXCEPT !.seed = s])

SetGrainSize ==
  \E g \in GrainSizes \ {app.params.grainSize} :
    HostReady /\ obs.changes < MaxChanges
    /\ SetParams([app.params EXCEPT !.grainSize = g])

ToggleGrain ==
  RenderReady /\ SetParams([app.params EXCEPT !.grainEnabled = ~@])

ToggleFilm ==
  RenderReady /\ SetParams([app.params EXCEPT !.filmEnabled = ~@])

SetGrainStrength ==
  \E v \in GrainStrengths \ {app.params.grainStrength} :
    RenderReady /\ SetParams([app.params EXCEPT !.grainStrength = v])

ToggleHalation ==
  RenderReady /\ SetParams([app.params EXCEPT !.halationEnabled = ~@])

ToggleOriginal ==
  RenderReady /\ Commit(rerender(Cur, app.params, ~app.showOriginal))

Tick ==
  /\ js.timers # << >>
  /\ NoDueTimer
  /\ Commit(tick(Cur, TickMs))

TimerFire ==
  \E i \in 1..Len(js.timers) :
    js.timers[i].left = 0 /\ Commit(timerFire(Cur, js.timers[i]))

\* SpecSync: grain parameters change while timers, generations and renders
\* interleave
NextSync ==
  \/ Mount
  \/ ConfigureCanvas
  \/ SetSeed
  \/ SetGrainSize
  \/ Tick
  \/ TimerFire
  \/ GenResolve
  \/ GpuStep

SpecSync == Init /\ [][NextSync]_vars

\* SpecRender: the effect switches change under a fixed grain setting
NextRender ==
  \/ Mount
  \/ ConfigureCanvas
  \/ ToggleGrain
  \/ ToggleFilm
  \/ SetGrainStrength
  \/ ToggleHalation
  \/ ToggleOriginal
  \/ Tick
  \/ TimerFire
  \/ GenResolve
  \/ GpuStep

SpecRender == Init /\ [][NextRender]_vars

\* SpecParams: every toggle and slider that feeds the blend and halation
\* parameters, with the original-image view
FilmToes == {0, 100}
FilmMidtoneBiases == {1000, 1500}

SetFilmToe ==
  \E v \in FilmToes \ {app.params.filmToe} :
    RenderReady /\ SetParams([app.params EXCEPT !.filmToe = v])

SetFilmMidtoneBias ==
  \E v \in FilmMidtoneBiases \ {app.params.filmMidtoneBias} :
    RenderReady /\ SetParams([app.params EXCEPT !.filmMidtoneBias = v])

NextParams ==
  \/ Mount
  \/ ConfigureCanvas
  \/ ToggleGrain
  \/ ToggleFilm
  \/ SetGrainStrength
  \/ SetFilmToe
  \/ SetFilmMidtoneBias
  \/ ToggleHalation
  \/ ToggleOriginal
  \/ Tick
  \/ TimerFire
  \/ GenResolve
  \/ GpuStep

SpecParams == Init /\ [][NextParams]_vars

\* SpecDebug: the debug keys of WebGpuCanvas among mounts, effect toggles,
\* timers and generations
DebugKeys == {1, 8}

ToggleDebug == RenderReady /\ Commit(toggleDebug(Cur))

DebugOff == RenderReady /\ Commit(debugOff(Cur))

SelectDebugTile ==
  \E key \in DebugKeys : RenderReady /\ Commit(selectDebugTile(Cur, key))

NextDebug ==
  \/ Mount
  \/ ConfigureCanvas
  \/ ToggleDebug
  \/ DebugOff
  \/ SelectDebugTile
  \/ ToggleGrain
  \/ ToggleHalation
  \/ Tick
  \/ TimerFire
  \/ GenResolve
  \/ GpuStep

SpecDebug == Init /\ [][NextDebug]_vars

\* ------------------------------------------------------------- SpecTex
\* The texture-owning operations of Renderer, GrainGenerator and
\* HalationProcessor called directly, in any order.
MaxTexOps == 3
MaxFailures == 1

\* the image of the page and one of another size (no multiple of 4)
Images == {TestImage, [id |-> 2, width |-> 6, height |-> 3]}

ImageSizes == {<<img.width, img.height>> : img \in Images}

FailureModes == {"throw", "invalid"}

\* createTexture calls of uploadImage: image, blend output, five of resize
UploadAllocCalls == 2 + Len(HalationSlots)

\* the texture slots of the three components
TextureSlots(S) ==
  { S.rr.imageTexture, S.rr.blendOutputTexture,
    S.gg.workTexture1, S.gg.workTexture2, S.gg.grainTileArray,
    S.hp.highlightTexture, S.hp.downsampledTexture, S.hp.blurPingTexture,
    S.hp.blurPongTexture, S.hp.outputTexture } \ {0}

\* what one texture operation did, read off the states before and after
TexOpObs(kind, width, height, S, T) ==
  [kind |-> kind, width |-> width, height |-> height,
   failed |-> T.obs.allocFailed,
   hpBefore |-> S.hp, hpAfter |-> T.hp,
   imageBefore |-> S.rr.imageTexture, blendBefore |-> S.rr.blendOutputTexture,
   imageAfter |-> T.rr.imageTexture, blendAfter |-> T.rr.blendOutputTexture,
   aliveBefore |-> S.dev.texAlive, aliveAfter |-> T.dev.texAlive,
   texBefore |-> Len(S.dev.texData),
   sizes |-> [k \in 1..Len(HalationSlots) |->
                IF T.hp[HalationSlots[k]] = 0 THEN <<0, 0>>
                ELSE <<T.dev.texData[T.hp[HalationSlots[k]]].w,
                       T.dev.texData[T.hp[HalationSlots[k]]].h>>],
   slotsAfter |-> TextureSlots(T),
   devKept |-> T.dev = S.dev]

BeginTexOp(S) == [S EXCEPT !.obs.allocFailed = FALSE]

NoteTexOp(kind, width, height, S, T) ==
  [T EXCEPT !.obs.lastTexOp = <<TexOpObs(kind, width, height, S, T)>>,
            !.obs.texOps = @ + 1]

\* A texture operation waits until the device has caught up with all but
\* MaxBacklog queue entries (validation of a command buffer against destroyed
\* textures happens at submit, so later destroys do not reach queued work).
CanTexOp == obs.texOps < MaxTexOps /\ Len(dev.queue) <= MaxBacklog

UploadImage ==
  \E img \in Images :
    /\ CanTexOp
    /\ Commit(NoteTexOp("upload", img.width, img.height, Cur,
                        uploadImageAlloc(BeginTexOp(Cur), img, NoFailure)))

\* a failure is placed on a createTexture call the operation reaches: calls
\* 1 and 2 are uploadImage's own, calls 3..7 those of the resize it ends with
UploadImageFail ==
  \E img \in Images : \E at \in 1..UploadAllocCalls : \E mode \in FailureModes :
    /\ CanTexOp /\ obs.failures < MaxFailures
    /\ (at > 2 => ~( /\ img.width = hp.imageWidth /\ img.height = hp.imageHeight
                     /\ hp.outputTexture # 0 ))
    /\ Commit([NoteTexOp("upload", img.width, img.height, Cur,
                         uploadImageAlloc(BeginTexOp(Cur), img,
                                          [at |-> at, mode |-> mode]))
                 EXCEPT !.obs.failures = @ + 1])

HalationResize ==
  \E sz \in ImageSizes :
    /\ CanTexOp
    /\ Commit(NoteTexOp("resize", sz[1], sz[2], Cur,
                        resizeAlloc(BeginTexOp(Cur), sz[1], sz[2],
                                    MipLevelCount(sz[1], sz[2]), NoFailure, 0)))

HalationResizeFail ==
  \E sz \in ImageSizes : \E at \in 1..Len(HalationSlots) : \E mode \in FailureModes :
    /\ CanTexOp /\ obs.failures < MaxFailures
    /\ ~(sz[1] = hp.imageWidth /\ sz[2] = hp.imageHeight /\ hp.outputTexture # 0)
    /\ Commit([NoteTexOp("resize", sz[1], sz[2], Cur,
                         resizeAlloc(BeginTexOp(Cur), sz[1], sz[2],
                                     MipLevelCount(sz[1], sz[2]),
                                     [at |-> at, mode |-> mode], 0))
                 EXCEPT !.obs.failures = @ + 1])

\* generateTiles calls are bounded by MaxGenCalls
TexGenerate ==
  /\ obs.callCount < MaxGenCalls /\ Len(js.gens) < MaxInflight
  /\ \E p \in {GrainParamsOf(BaseSeed, 1000, 2)} :
       Commit([NoteTexOp("generate", 0, 0, Cur,
                         generateTiles(BeginTexOp(Cur), p, TILE_COUNT, FALSE))
                 EXCEPT !.obs.texOps = obs.texOps])

RendererDestroy ==
  /\ CanTexOp
  /\ Commit(NoteTexOp("destroy", 0, 0, Cur, rendererDestroy(BeginTexOp(Cur))))

NextTex ==
  \/ UploadImage
  \/ HalationResize
  \/ TexGenerate
  \/ RendererDestroy
  \/ GenResolve
  \/ GpuStep

SpecTex == Init /\ [][NextTex]_vars

\* SpecAlloc: the allocating operations with createTexture failures
NextAlloc ==
  \/ UploadImage
  \/ UploadImageFail
  \/ HalationResize
  \/ HalationResizeFail
  \/ RendererDestroy
  \/ GpuStep

SpecAlloc == Init /\ [][NextAlloc]_vars

\* SpecLife: uploadImage, render, updateGrain and destroy called in any
\* order.  destroy and updateGrain do not wait for the device, so either may
\* find a generation in flight.
LifeUpload ==
  \E img \in Images :
    /\ CanTexOp
    /\ Commit(NoteTexOp("upload", img.width, img.height, Cur,
                        uploadImage(BeginTexOp(Cur), img)))

LifeHalation ==
  /\ CanTexOp /\ ~hp.params.enabled
  /\ Commit(setHalationParams(Cur, [hp.params EXCEPT !.enabled = TRUE]))

LifeRender ==
  /\ CanTexOp
  /\ Commit([render(Cur) EXCEPT !.obs.texOps = @ + 1])

LifeUpdateGrain ==
  \E seed \in Seeds :
    /\ obs.callCount < MaxGenCalls /\ Len(js.gens) < MaxInflight
    /\ Commit(updateGrain(setGrainParams(Cur, GrainParamsOf(seed, 1000, 2)), TRUE))

LifeDestroy ==
  /\ obs.texOps < MaxTexOps
  /\ Commit(NoteTexOp("destroy", 0, 0, Cur, rendererDestroy(BeginTexOp(Cur))))

NextLife ==
  \/ LifeUpload
  \/ LifeHalation
  \/ LifeRender
  \/ LifeUpdateGrain
  \/ LifeDestroy
  \/ GenResolve
  \/ GpuStep

SpecLife == Init /\ [][NextLife]_vars

\* ------------------------------------------------------------- SpecZoom
\* Pointer, wheel, touch and toolbar events on the mounted canvas, in any
\* order, MaxViewEvents of them.
MaxViewEvents == 3

CanvasPoints == {<<500, 500>>, <<0, 750>>}
TouchDistances == {0, 10, 400}
OneTouch(p) == [n |-> 1, x |-> p[1], y |-> p[2], distance |-> 0]
TwoTouches(p, d) == [n |-> 2, x |-> p[1], y |-> p[2], distance |-> d]
NoTouches == [n |-> 0, x |-> 0, y |-> 0, distance |-> 0]

CanView == ci.events < MaxViewEvents

ViewEvent(kind, c) ==
  /\ ci' = [c EXCEPT !.events = @ + 1,
                     !.last = <<[kind |-> kind, zoom |-> ci.viewState.zoom]>>]
  /\ UNCHANGED <<dev, gg, hp, rr, app, js, obs, sh, wg>>

OneTouches == {OneTouch(p) : p \in CanvasPoints}
PinchTouches == {TwoTouches(p, d) : p \in CanvasPoints, d \in TouchDistances}

Wheel ==
  \E p \in CanvasPoints : \E zoomIn \in BOOLEAN :
    /\ CanView
    /\ ViewEvent("wheel", handleWheel(ci, p[1], p[2], zoomIn))

TouchStart ==
  \E t \in OneTouches \cup PinchTouches :
    /\ CanView
    /\ ViewEvent("touchstart", handleTouchStart(ci, t))

\* a touchmove that takes the drag branch is a drag, one that takes the
\* pinch branch a pinch
TouchMove ==
  \E t \in OneTouches \cup PinchTouches :
    /\ CanView /\ ci.touchStateRef # << >>
    /\ ViewEvent(IF ci.touchStateRef[1].type = "drag" /\ t.n = 1 THEN "drag"
                 ELSE IF ci.touchStateRef[1].type = "pinch" /\ t.n = 2 THEN "pinch"
                 ELSE "touchmove",
                 handleTouchMove(ci, t))

TouchEnd ==
  \E t \in {NoTouches} \cup OneTouches :
    /\ CanView /\ ci.touchStateRef # << >>
    /\ ViewEvent("touchend", handleTouchEnd(ci, t))

MouseDown ==
  \E button \in {0, 2} : \E p \in CanvasPoints :
    /\ CanView
    /\ ViewEvent("mousedown", handleMouseDown(ci, button, p[1], p[2]))

MouseMove ==
  \E p \in CanvasPoints :
    /\ CanView
    /\ ViewEvent(IF ci.isDragging /\ ci.dragStartRef # << >> THEN "drag"
                 ELSE "mousemove",
                 handleMouseMove(ci, p[1], p[2]))

MouseUp == CanView /\ ViewEvent("mouseup", handleMouseUp(ci))

ZoomIn == CanView /\ ViewEvent("zoomin", handleZoomIn(ci))

ZoomOut == CanView /\ ViewEvent("zoomout", handleZoomOut(ci))

FitToWindow == CanView /\ ViewEvent("fit", handleFitToWindow(ci))

ActualSize == CanView /\ ViewEvent("actual", handleActualSize(ci))

NextZoom ==
  \/ Wheel
  \/ TouchStart
  \/ TouchMove
  \/ TouchEnd
  \/ MouseDown
  \/ MouseMove
  \/ MouseUp
  \/ ZoomIn
  \/ ZoomOut
  \/ FitToWindow
  \/ ActualSize

SpecZoom == Init /\ [][NextZoom]_vars

\* SpecImage: images of different sizes are loaded while effects are
\* toggled and tiles are generated
LoadImage ==
  \E img \in Images \ {app.image} :
    /\ RenderReady /\ obs.texOps < MaxTexOps
    /\ Commit([loadImage(Cur, img) EXCEPT !.obs.texOps = @ + 1])

NextImage ==
  \/ Mount
  \/ ConfigureCanvas
  \/ LoadImage
  \/ ToggleGrain
  \/ ToggleHalation
  \/ Tick
  \/ TimerFire
  \/ GenResolve
  \/ GpuStep

SpecImage == Init /\ [][NextImage]_vars

\* ----------------------------------------------------------- SpecShader
\* Single shader invocations on inputs drawn from small sets.
TestTexels ==
  { Texel(0, 0, 0, 255), Texel(64, 128, 255, 255),
    Texel(255, 255, 255, 128), Texel(200, 100, 50, 255) }

GrainSamples == {Rgb(500, 500, 500), Rgb(0, 1000, 300), Rgb(1000, 200, 700)}

BlendStrengths == {0, 1000}
Saturations == {0, 700}
Toes == {-100, 0, 200}
MidtoneBiases == {500, 1000, 2000}

HalationSamples == {Rgb(0, 0, 0), Rgb(900, 800, 700), Rgb(1000, 1000, 1000)}
HalationStrengths == {0, 300, 1000}

\* a seed of the page and one whose tile seeds wrap around 2^32
NoiseSeeds == {U32FromInt(BaseSeed), <<W16 - 1, W16 - 1000>>}

BlendInputs ==
  [fn : {"blend"},
   in : [image : TestTexels, grain_raw : GrainSamples,
         params : [strength : BlendStrengths, saturation : Saturations,
                   toe : Toes, midtoneBias : MidtoneBiases]],
   out : {<< >>}]

UpsampleInputs ==
  [fn : {"upsample"},
   in : [image : TestTexels, halation_raw : HalationSamples,
         strength : HalationStrengths],
   out : {<< >>}]

NoiseInputs ==
  [fn : {"noise"}, in : [seed : NoiseSeeds, tileSize : {BASE_TILE_SIZE}],
   out : {<< >>}]

InitShader ==
  /\ InitPage
  /\ \/ sh \in BlendInputs
     \/ sh \in UpsampleInputs
     \/ sh \in NoiseInputs
  /\ wg = ReadyHook

Invoke(out) ==
  /\ sh.out = << >>
  /\ sh' = [sh EXCEPT !.out = <<out>>]
  /\ UNCHANGED <<dev, gg, hp, rr, app, js, obs, wg, ci>>

RunBlend ==
  /\ sh.fn = "blend"
  /\ Invoke(blend_main(sh.in.image, sh.in.grain_raw, sh.in.params))

RunUpsample ==
  /\ sh.fn = "upsample"
  /\ Invoke(upsample_main(sh.in.image, sh.in.halation_raw, sh.in.strength))

\* the noise pass over a whole tile set: how many different generator
\* states its pixels start from
RunNoise ==
  /\ sh.fn = "noise"
  /\ Invoke([states |-> Cardinality(TileSetStates(sh.in.seed, sh.in.tileSize)),
             pixels |-> TILE_COUNT * sh.in.tileSize * sh.in.tileSize])

NextShader ==
  \/ RunBlend
  \/ RunUpsample
  \/ RunNoise

SpecShader == InitShader /\ [][NextShader]_vars

\* ------------------------------------------------------------ SpecSample
\* The box filters of the halation downsample pass and of mipmap generation
\* over whole textures of every small size.  The sampled texture is white
\* (every texel 1.0), so that a load that returns zero shows in the result.
MaxSide == 9

\* what textureLoad may return for coordinates outside the texture: a zero
\* vector, or the data of a texel within bounds
OutOfBoundsLoads == {"zero", "texel"}

White == 1000

Inside(c, w, h) == c[1] < w /\ c[2] < h

textureLoad(c, w, h, oob) ==
  IF Inside(c, w, h) \/ oob = "texel" THEN White ELSE 0

\* the coordinates the invocation gid loads: src_pos = gid.xy * n,
\* src_pos + (dx, dy) for dx, dy < n
BlockLoads(gid, n) ==
  {<<gid[1] * n + dx, gid[2] * n + dy>> : dx \in 0..(n - 1), dy \in 0..(n - 1)}

RECURSIVE SumLoads(_, _, _, _)
SumLoads(cs, w, h, oob) ==
  IF cs = {} THEN 0
  ELSE LET c == CHOOSE x \in cs : TRUE
       IN  textureLoad(c, w, h, oob) + SumLoads(cs \ {c}, w, h, oob)

\* one invocation of a box filter of side n over a w x h source
BoxTexel(gid, n, w, h, oob) ==
  [inside |-> Cardinality({c \in BlockLoads(gid, n) : Inside(c, w, h)}),
   value |-> SumLoads(BlockLoads(gid, n), w, h, oob) \div (n * n)]

\* all invocations that pass `if (gid.x >= dst_size.x || ...) { return; }`
BoxPass(n, w, h, dw, dh, oob) ==
  [gid \in (0..(dw - 1)) \X (0..(dh - 1)) |-> BoxTexel(gid, n, w, h, oob)]

\* halation downsample main over the highlight texture of a w x h image
downsample_main(w, h, oob) == BoxPass(4, w, h, dsSize(w), dsSize(h), oob)

\* size of mip level `level` of a texture whose level 0 has size n
RECURSIVE MipSize(_, _)
MipSize(n, level) == IF level = 0 THEN n ELSE Max(1, MipSize(n, level - 1) \div 2)

\* the loop of generateMipmaps: for each level its size and the blit pass
\* that fills it from the level below
MipChain(w, h, oob) ==
  [level \in 1..(MipLevelCount(w, h) - 1) |->
     [width |-> MipSize(w, level), height |-> MipSize(h, level),
      texels |-> BoxPass(2, MipSize(w, level - 1), MipSize(h, level - 1),
                         MipSize(w, level), MipSize(h, level), oob)]]

Sides == 1..MaxSide

SampleInputs ==
  {[fn |-> f, in |-> [w |-> w, h |-> h, oob |-> o], out |-> << >>] :
     f \in {"downsample", "mipmaps"}, w \in Sides, h \in Sides,
     o \in OutOfBoundsLoads}

InitSample ==
  /\ InitPage
  /\ sh \in SampleInputs
  /\ wg = ReadyHook

RunDownsample ==
  /\ sh.fn = "downsample"
  /\ Invoke(downsample_main(sh.in.w, sh.in.h, sh.in.oob))

RunMipmaps ==
  /\ sh.fn = "mipmaps"
  /\ Invoke(MipChain(sh.in.w, sh.in.h, sh.in.oob))

NextSample ==
  \/ RunDownsample
  \/ RunMipmaps

SpecSample == InitSample /\ [][NextSample]_vars

\* ------------------------------------------------------------- SpecInit
\* The useWebGpu hook of one App instance in each browser environment, from
\* its first render to its unmount.
MaxHookRenders == 3

InitHook ==
  /\ InitPage
  /\ sh = NoInvocation
  /\ wg \in {HookOf(env) : env \in Environments}

HookStep(w) ==
  /\ wg' = w
  /\ UNCHANGED <<dev, gg, hp, rr, app, js, obs, sh, ci>>

HookMount == wg.mounted = "no" /\ HookStep(useEffectMount(wg))

AdapterSettles == wg.pc = "requestAdapter" /\ HookStep(adapterSettled(wg))

DeviceSettles == wg.pc = "requestDevice" /\ HookStep(deviceSettled(wg))

InitSettles == wg.pc \in {"resolved", "rejected"} /\ HookStep(initSettled(wg))

HookRender ==
  /\ wg.mounted = "yes"
  /\ Len(wg.seen) < MaxHookRenders
  /\ HookStep(hookRender(wg))

HookUnmount == wg.mounted = "yes" /\ HookStep(useEffectCleanup(wg))

NextInit ==
  \/ HookMount
  \/ AdapterSettles
  \/ DeviceSettles
  \/ InitSettles
  \/ HookRender
  \/ HookUnmount

\* the effect runs after the first render, the browser settles the promises
\* it returned and runs the continuations; unmounting may never happen
SpecInit ==
  /\ InitHook
  /\ [][NextInit]_vars
  /\ WF_vars(HookMount)
  /\ WF_vars(AdapterSettles)
  /\ WF_vars(DeviceSettles)
  /\ WF_vars(InitSettles)

\* ------------------------------------------------------------ claims
SameKey(p, q) == p.seed = q.seed /\ p.arLag = q.arLag

CacheHitCase(c) ==
  c.hadArray /\ c.prevLast # << >> /\ SameKey(c.prevLast[1], c.params)

Ones(n) == [i \in 1..n |-> 1]

\* C1: generateTiles returns the existing tile array and submits nothing
\* when a tile array exists and (seed, arLag) equals that of the last
\* completed generation, whatever grainSize is; otherwise it starts a
\* regeneration, which submits all TILE_COUNT tiles unless a device call
\* throws on the way.
C1_CacheKeyIsSeedAndArLag ==
  obs.lastCall # << >> =>
    LET c == obs.lastCall[1]
    IN  /\ CacheHitCase(c) =>
             c.kind = "hit" /\ c.submits = 0 /\ c.ret = c.prevArray
        /\ ~CacheHitCase(c) =>
             /\ c.kind \in {"miss", "abort"}
             /\ c.kind = "miss" => c.submits = TILE_COUNT

\* a hit whose grainSize differs from the cached one
C1_Witness ==
  /\ obs.lastCall # << >>
  /\ obs.lastCall[1].kind = "hit"
  /\ obs.lastCall[1].prevLast[1].grainSize # obs.lastCall[1].params.grainSize

\* C2: on a miss every slot 0..7 is written exactly once, slot i by the
\* pipeline run with tile index i, and the promise resolves (updating the
\* cached key) only after the device passed the fence behind all 8 tiles.
LayerFromTile(content, i) ==
  \/ content = << >>
  \/ /\ content[1].st = "noise" /\ content[1].u[2] = i
     /\ content[Len(content)].st = "normalize" /\ content[Len(content)].u[2] = i

C2_EightSlotsThenResolve ==
  /\ (obs.lastSettled # << >> /\ obs.lastSettled[1].ok) =>
        /\ obs.lastSettled[1].done
        /\ obs.lastSettled[1].writes = Ones(TILE_COUNT)
        /\ gg.lastParams # << >>
  /\ gg.grainTileArray # 0 =>
        \A i \in 1..TILE_COUNT :
          LayerFromTile(dev.texData[gg.grainTileArray].layers[i], i - 1)
  /\ gg.lastParams # << >> => (obs.lastSettled # << >> /\ obs.callCount > 0)

C2_Witness ==
  /\ obs.lastSettled # << >> /\ obs.lastSettled[1].ok
  /\ gg.lastParams = <<obs.lastSettled[1].params>>
  /\ \A i \in 1..TILE_COUNT : dev.texData[gg.grainTileArray].layers[i] # << >>

\* C3: every blur pass of a tile runs with the uniform values written for
\* it: channel c horizontal then vertical, with channel c's kernel.
ExpectedBlurUniform(k) ==
  LET channel == (k - 1) \div 2
      direction == (k - 1) % 2
  IN  <<getBlurSpecs[channel + 1].kernelRadius, getBlurSpecs[channel + 1].sigma,
        direction, channel>>

BlurStages(content) == SelectSeq(content, LAMBDA st : st.st = "blur")

C3_BlurPassReadsItsOwnUniforms ==
  gg.grainTileArray # 0 =>
    \A i \in 1..TILE_COUNT :
      LET blurs == BlurStages(dev.texData[gg.grainTileArray].layers[i])
      IN  \A k \in 1..Len(blurs) : blurs[k].u = ExpectedBlurUniform(k)

\* C4: when the command buffer of process has executed, the first halation
\* blur pass ran horizontally and the second vertically, both with radius
\* max(1, round(radius / 4)) and sigma = that radius / 3.
HalationBlurStages(content) == SelectSeq(content, LAMBDA st : st.st = "hblur")

ExpectedHalationBlur(radius, direction) ==
  LET r == IF (radius + 2) \div 4 >= 1 THEN (radius + 2) \div 4 ELSE 1
  IN  <<r, (r * 1000) \div 3, direction, 0>>

C4_HalationBlurHorizontalThenVertical ==
  (obs.lastProcess # << >> /\ dev.queue = << >> /\ hp.blurPongTexture # 0) =>
     LET blurs == HalationBlurStages(Level0(dev.texData, hp.blurPongTexture))
         radius == obs.lastProcess[1].radius
     IN  /\ Len(blurs) = 2
         /\ blurs[1].u = ExpectedHalationBlur(radius, 0)
         /\ blurs[2].u = ExpectedHalationBlur(radius, 1)

\* C5: in a render where both stages run, the blend pass is submitted
\* before every halation pass and halation reads the blend output texture
\* (so the executed halation output derives from the blended image);
\* halation reads the uploaded image only in a render without a blend pass.
PassesOf(r, pipes) == SelectSeq(r.passes, LAMBDA p : p.pipe \in pipes)

HalationPipes == {"threshold", "downsample", "hblur", "upsample"}

HasStage(content, st) == \E i \in 1..Len(content) : content[i].st = st

C5_HalationReadsBlendOutput ==
  obs.lastRender # << >> =>
    LET r == obs.lastRender[1]
        blends == PassesOf(r, {"blend"})
        hal == PassesOf(r, HalationPipes)
        reads == PassesOf(r, {"threshold", "upsample"})
    IN  /\ (blends # << >> /\ hal # << >>) =>
             /\ \A i \in 1..Len(blends) : \A j \in 1..Len(hal) :
                  blends[i].sub < hal[j].sub
             /\ \A j \in 1..Len(reads) :
                  reads[j].in = blends[1].out /\ reads[j].in = r.blendOutputTexture
             /\ dev.queue = << >> =>
                  HasStage(Level0(dev.texData, hp.outputTexture), "blend")
        /\ \A j \in 1..Len(reads) :
             reads[j].in = r.imageTexture => blends = << >>

C5_Witness ==
  /\ obs.lastRender # << >>
  /\ PassesOf(obs.lastRender[1], {"blend"}) # << >>
  /\ PassesOf(obs.lastRender[1], {"upsample"}) # << >>
  /\ dev.queue = << >>

\* C6: every executed blend pass sampled tiles that were all generated from
\* the seed the pass itself was given for its patchwork hash.
C6_BlendSamplesTilesOfItsSeed ==
  rr.blendOutputTexture # 0 =>
    LET c == Level0(dev.texData, rr.blendOutputTexture)
    IN  (c # << >> /\ c[Len(c)].st = "blend") =>
          \A i \in 1..Len(c[Len(c)].src) : c[Len(c)].src[i] = c[Len(c)].u[8]

\* C7: a regeneration while a tile set exists creates a new tile-array
\* resource and releases the old one.
C7_RegenerationReplacesTileArray ==
  (obs.lastCall # << >> /\ obs.lastCall[1].kind = "miss" /\ obs.lastCall[1].hadArray) =>
     /\ obs.lastCall[1].ret # obs.lastCall[1].prevArray
     /\ ~obs.lastCall[1].prevAlive

\* C8: after a failed generation, once the device is idle and nothing is in
\* flight, the tile contents and the cached key are those of the last
\* successful generation.
LayerKey(content) ==
  IF Len(content) >= 2 /\ content[1].st = "noise" /\ content[2].st = "ar"
  THEN [seed |-> content[1].u[1], arLag |-> content[2].u[2]]
  ELSE [seed |-> -1, arLag |-> -1]

C8_FailureKeepsPreviousTiles ==
  ( /\ obs.lastSettled # << >> /\ ~obs.lastSettled[1].ok
    /\ js.gens = << >> /\ dev.queue = << >>
    /\ gg.lastParams # << >> /\ gg.grainTileArray # 0 ) =>
     \A i \in 1..TILE_COUNT :
       SameKey(LayerKey(dev.texData[gg.grainTileArray].layers[i]), gg.lastParams[1])

\* C9: a burst of grain-parameter changes, each less than DEBOUNCE_MS after
\* the previous one, leads to exactly one updateGrain call, DEBOUNCE_MS after
\* the last change and with the latest parameters; a change removes only the
\* pending timer, and leaves started generations and queued work alone.
C9_DebounceCoalescesBursts ==
  /\ obs.lastFire # << >> =>
        /\ obs.lastFire[1].elapsed = DEBOUNCE_MS
        /\ obs.lastFire[1].params = <<obs.lastFire[1].latest>>
  /\ obs.fires <= 1
  /\ js.timers # << >> => (Len(js.timers) = 1 /\ obs.fires = 0)
  /\ (app.mounted /\ js.timers = << >>) => obs.fires = 1
  /\ obs.lastChange # << >> =>
        /\ obs.lastChange[1].gensAfter = obs.lastChange[1].gensBefore
        /\ obs.lastChange[1].queueKept
        /\ obs.lastChange[1].timersAfter = 1

\* a burst of two changes, made while a generation was in flight, has fired
C9_Witness ==
  /\ obs.lastFire # << >>
  /\ obs.lastFire[1].burst >= 2
  /\ obs.fires = 1
  /\ obs.lastChange[1].gensBefore # << >>
  /\ obs.lastChange[1].timersBefore = 1

\* C10 as stated: with blend enabled but strength = 0 and toe = 0, render
\* issues no blend pass.
C10_NoBlendWhenNeutral ==
  obs.lastRender # << >> =>
    LET r == obs.lastRender[1]
    IN  (r.blendParams.enabled /\ r.blendParams.strength = 0 /\ r.blendParams.toe = 0)
          => PassesOf(r, {"blend"}) = << >>

\* C10 amended: render issues the blend pass exactly when blendParams.enabled
\* is set (grain or film toning on and the original view off) and an image,
\* its blend output texture, a grain tile array and grainParams exist and the
\* debug tile view does not take over; strength and toe play no part.
C10_BlendRunsWheneverEnabled ==
  obs.lastRender # << >> =>
    LET r == obs.lastRender[1]
    IN  /\ PassesOf(r, {"blend"}) # << >> <=>
             /\ r.blendParams.enabled
             /\ r.imageTexture # 0
             /\ r.blendOutputTexture # 0
             /\ r.tiles # 0
             /\ r.grainParams # << >>
             /\ ~r.debug
        /\ r.blendParams.enabled =
             (~app.showOriginal /\ (app.params.grainEnabled \/ app.params.filmEnabled))

C10_Witness ==
  /\ obs.lastRender # << >>
  /\ obs.lastRender[1].blendParams.enabled
  /\ obs.lastRender[1].blendParams.strength = 0
  /\ obs.lastRender[1].blendParams.toe = 0
  /\ PassesOf(obs.lastRender[1], {"blend"}) # << >>

\* C11: in every compute pass of tile generation and of halation the output
\* texture is none of the pass's inputs, and every pass after the first of
\* its command buffer reads the texture the pass before it wrote; the
\* normalize pass reads what the last (vertical) blur pass wrote.
TilePipes == {"noise", "ar", "ycbcr", "blur", "normalize"}

ReadsOf(p) == {p.in, p.in2} \ {0}

ComputePasses(e) ==
  SelectSeq(e.passes, LAMBDA p : p.pipe \in TilePipes \cup HalationPipes)

PingPong(ps) ==
  /\ \A k \in 1..Len(ps) : ps[k].out # 0 /\ ps[k].out \notin ReadsOf(ps[k])
  /\ \A k \in 2..Len(ps) : ps[k - 1].out \in ReadsOf(ps[k])
  /\ \A k \in 2..Len(ps) :
        ps[k].pipe = "normalize" =>
          ps[k - 1].pipe = "blur" /\ ps[k].in = ps[k - 1].out

C11_PingPongDiscipline ==
  \A i \in 1..Len(dev.queue) : PingPong(ComputePasses(dev.queue[i]))

\* a tile command buffer and a halation command buffer are both queued
C11_Witness ==
  /\ \E i \in 1..Len(dev.queue) :
        \E k \in 1..Len(dev.queue[i].passes) : dev.queue[i].passes[k].pipe = "normalize"
  /\ \E i \in 1..Len(dev.queue) :
        \E k \in 1..Len(dev.queue[i].passes) : dev.queue[i].passes[k].pipe = "upsample"

\* C12: a resize to dimensions different from the current ones (no
\* allocation failing) destroys every work texture held before and leaves
\* five new live textures, highlight and output at w x h and the other three
\* at max(1, ceil(w/4)) x max(1, ceil(h/4)); a resize to the current
\* dimensions while an output texture exists changes nothing.
SlotSet(h) == {h[HalationSlots[k]] : k \in 1..Len(HalationSlots)} \ {0}

QuarterSize(n) == IF (n + 3) \div 4 >= 1 THEN (n + 3) \div 4 ELSE 1

C12_ResizeRecreatesAllFive ==
  (obs.lastTexOp # << >> /\ obs.lastTexOp[1].kind \in {"resize", "upload"}
   /\ ~obs.lastTexOp[1].failed) =>
    LET o == obs.lastTexOp[1]
        changed == o.width # o.hpBefore.imageWidth \/ o.height # o.hpBefore.imageHeight
        full == <<o.width, o.height>>
        quarter == <<QuarterSize(o.width), QuarterSize(o.height)>>
    IN  /\ changed =>
             /\ SlotSet(o.hpBefore) \cap o.aliveAfter = {}
             /\ Cardinality(SlotSet(o.hpAfter)) = Len(HalationSlots)
             /\ SlotSet(o.hpAfter) \subseteq o.aliveAfter
             /\ \A id \in SlotSet(o.hpAfter) : id > o.texBefore
             /\ o.sizes = <<full, quarter, quarter, quarter, full>>
             /\ o.hpAfter.imageWidth = o.width /\ o.hpAfter.imageHeight = o.height
        /\ (~changed /\ o.hpBefore.outputTexture # 0) =>
             /\ o.hpAfter = o.hpBefore
             /\ SlotSet(o.hpBefore) \cap o.aliveBefore \subseteq o.aliveAfter
             /\ o.kind = "resize" => o.devKept

\* a direct resize of a ready processor to a size that is no multiple of 4
C12_Witness ==
  /\ obs.lastTexOp # << >>
  /\ obs.lastTexOp[1].kind = "resize"
  /\ ~obs.lastTexOp[1].failed
  /\ Cardinality(SlotSet(obs.lastTexOp[1].hpBefore) \cap obs.lastTexOp[1].aliveBefore)
       = Len(HalationSlots)
  /\ obs.lastTexOp[1].width # obs.lastTexOp[1].hpBefore.imageWidth
  /\ obs.lastTexOp[1].width % 4 # 0

\* C13: when a createTexture call fails during resize or uploadImage, the
\* textures that were valid before the call (image, blend output, halation
\* set) are still live afterwards.
ValidBefore(o) ==
  (SlotSet(o.hpBefore) \cup ({o.imageBefore, o.blendBefore} \ {0})) \cap o.aliveBefore

C13_AllocationFailureKeepsTextures ==
  (obs.lastTexOp # << >> /\ obs.lastTexOp[1].kind \in {"resize", "upload"}
   /\ obs.lastTexOp[1].failed) =>
     ValidBefore(obs.lastTexOp[1]) \subseteq obs.lastTexOp[1].aliveAfter

\* C20: every live texture is the one referenced by its slot (whatever was
\* created and is no longer referenced has been destroyed), and right after
\* Renderer.destroy() no texture is live and no slot references one.
C20_NoTextureLeak ==
  /\ dev.texAlive \subseteq TextureSlots(Cur)
  /\ (obs.lastTexOp # << >> /\ obs.lastTexOp[1].kind = "destroy") =>
        /\ obs.lastTexOp[1].aliveAfter = {}
        /\ obs.lastTexOp[1].slotsAfter = {}

\* destroy of a renderer holding an image, the halation set and tiles
C20_Witness ==
  /\ obs.lastTexOp # << >>
  /\ obs.lastTexOp[1].kind = "destroy"
  /\ Cardinality(obs.lastTexOp[1].aliveBefore) = 2 + Len(HalationSlots) + 3
  /\ dev.texAlive = {}

\* C14: with strength = 0 the blend pass writes the texel it read, whatever
\* the tile sample, saturation, toe and midtone bias are.
C14_NeutralGrainIsIdentity ==
  (sh.fn = "blend" /\ sh.out # << >> /\ sh.in.params.strength = 0) =>
     sh.out[1] = sh.in.image

\* C15: with halation strength = 0 the upsample-blend pass writes the texel
\* it read from the halation input, whatever the blurred highlights are;
\* with halation disabled render submits no halation pass and draws the
\* texture halation would have been given.
C15_HalationNoOp ==
  /\ (sh.fn = "upsample" /\ sh.out # << >> /\ sh.in.strength = 0) =>
        sh.out[1] = sh.in.image
  /\ (obs.lastRender # << >> /\ ~obs.lastRender[1].halation) =>
        PassesOf(obs.lastRender[1], HalationPipes) = << >>

\* C17: for a fixed seed the TILE_COUNT * 256 * 256 pixels of a tile set
\* start from pairwise different generator states.
C17_NoiseStatesDistinct ==
  (sh.fn = "noise" /\ sh.out # << >>) => sh.out[1].states = sh.out[1].pixels

C17_Witness ==
  /\ sh.fn = "noise" /\ sh.out # << >>
  /\ sh.in.tileSize = 256
  /\ sh.in.seed = <<W16 - 1, W16 - 1000>>
  /\ sh.out[1].pixels = 8 * 256 * 256

\* C16: tile generation is deterministic.  When the device passes the fence
\* of a generateTiles run, the eight layers of that run's tile array are
\* those a run with the same (seed, arLag) leaves on freshly created
\* textures and zeroed uniform buffers, whatever grainSize is and whatever
\* earlier runs left in the work textures and uniform buffers.
IsolatedRun(params) ==
  LET t == NewTexture(1, BASE_TILE_SIZE, BASE_TILE_SIZE, 1)
      a == NewTexture(TILE_COUNT, BASE_TILE_SIZE, BASE_TILE_SIZE, 1)
      G == ExecEntries([td |-> <<t, t, a>>,
                        ub |-> [b \in BufferNames |-> Zeros(BufferWords(b))],
                        cv |-> << >>, nw |-> << >>],
                       TileLoop(TILE_COUNT,
                                GrainParamsOf(params.seed, 1000, params.arLag),
                                1, 2, 3, {1, 2, 3}, TRUE, 0))
  IN  G.td[3].layers

FencePasses(i) ==
  /\ i \in 1..Len(js'.gens)
  /\ js'.gens[i].call = js.gens[i].call
  /\ ~js.gens[i].done
  /\ js'.gens[i].done

C16_RunsWithSameKeyAgree ==
  [][ \A i \in 1..Len(js.gens) :
        FencePasses(i) =>
          dev'.texData[js.gens[i].tiles].layers = IsolatedRun(js.gens[i].params)
    ]_vars

\* a second run has completed on the device after a run with another
\* (seed, arLag) had resolved and left its values in the shared resources
C16_Witness ==
  /\ gg.lastParams # << >>
  /\ js.gens # << >>
  /\ Head(js.gens).done
  /\ Head(js.gens).call = 2
  /\ <<Head(js.gens).params.seed, Head(js.gens).params.arLag>>
       # <<gg.lastParams[1].seed, gg.lastParams[1].arLag>>
  /\ Head(js.gens).params.grainSize # 1000
  /\ dev.ubuf["grain.noise"][1] = Head(js.gens).params.seed
  /\ dev.texData[Head(js.gens).tiles].layers = IsolatedRun(Head(js.gens).params)

\* C18: without navigator.gpu or without an adapter initWebGpu rejects with
\* its descriptive message; the hook then shows 'error' with that message
\* unless it was unmounted first, never shows 'ready', calls initWebGpu and
\* requestAdapter at most once, and never sets state after unmounting.
NoWebGpu == ~wg.env.gpu \/ ~wg.env.adapter

ExpectedMessage == IF ~wg.env.gpu THEN NoGpuMessage ELSE NoAdapterMessage

InitFailureSafety ==
  /\ wg.lateSets = 0
  /\ wg.inits <= 1
  /\ wg.adapterRequests <= 1
  /\ NoWebGpu =>
       /\ wg.state.status # "ready"
       /\ \A i \in 1..Len(wg.seen) : wg.seen[i] # "ready"
       /\ wg.pc # "resolved"
       /\ wg.pc = "rejected" => wg.reason = ExpectedMessage
       /\ wg.state.status = "error" => wg.state.error = ExpectedMessage
       /\ (wg.pc = "done" /\ wg.mounted = "yes") =>
            wg.state = WebGpuState("error", ExpectedMessage)
       /\ wg.sets <= 1
       /\ ~wg.env.gpu => wg.adapterRequests = 0

C18_InitFailureSurfacesOnce ==
  /\ []InitFailureSafety
  /\ (NoWebGpu /\ wg.mounted = "no")
       ~> (wg.state = WebGpuState("error", ExpectedMessage) \/ wg.mounted = "gone")

\* no adapter: the error is shown and rendered; the component then unmounts
C18_Witness ==
  /\ wg.env.gpu /\ ~wg.env.adapter
  /\ wg.pc = "done"
  /\ wg.state = WebGpuState("error", NoAdapterMessage)
  /\ wg.seen = <<"loading", "error">>
  /\ wg.mounted = "gone"

\* C19: a render with showGrainTile set and a tile array present submits
\* one command buffer holding the clear and the debug draw of the tile
\* array, and nothing else; the canvas then shows the selected layer.  With
\* showGrainTile set and no tile array, render takes the normal path: no
\* debug pass, a clear only without an image, the final draw otherwise.
PipesOf(passes) == [i \in 1..Len(passes) |-> passes[i].pipe]

C19_DebugViewBypassesPipeline ==
  (obs.lastRender # << >> /\ obs.lastRender[1].debug) =>
     LET lr == obs.lastRender[1]
     IN  /\ lr.tiles # 0 =>
              /\ PipesOf(lr.passes) = <<"clear", "debug">>
              /\ lr.passes[2].in = lr.tiles
              /\ lr.passes[2].sub = 1
              /\ (dev.queue = << >> /\ rr.debugState.showGrainTile) =>
                    /\ dev.canvas # << >>
                    /\ dev.canvas[Len(dev.canvas)].st = "debug"
                    /\ dev.canvas[Len(dev.canvas)].u[1] = rr.debugState.tileIndex
         /\ lr.tiles = 0 =>
              /\ \A i \in 1..Len(lr.passes) : lr.passes[i].pipe # "debug"
              /\ lr.imageTexture = 0 => PipesOf(lr.passes) = <<"clear">>
              /\ lr.imageTexture # 0 =>
                   lr.passes[Len(lr.passes)].pipe = "draw"

\* the last tile is shown while an image is loaded and grain and halation
\* are both switched on
C19_Witness ==
  /\ obs.lastRender # << >>
  /\ obs.lastRender[1].debug
  /\ obs.lastRender[1].tiles # 0
  /\ obs.lastRender[1].imageTexture # 0
  /\ obs.lastRender[1].blendParams.enabled
  /\ obs.lastRender[1].halation
  /\ rr.debugState.tileIndex = 7
  /\ dev.queue = << >>
  /\ dev.canvas[Len(dev.canvas)].st = "debug"

\* C21: whenever a texture is drawn to the canvas, all mip levels of that
\* texture have been regenerated, in order, since the last write to its
\* level 0.
C21_DrawnTextureHasFreshMips ==
  (dev.canvas # << >> /\ dev.canvas[Len(dev.canvas)].st = "draw") =>
     LET d == dev.canvas[Len(dev.canvas)]
     IN  d.src[1] = d.src[2] - 1

\* the halation output over the blend output of the second image is on the
\* canvas
C21_Witness ==
  /\ dev.canvas # << >>
  /\ Len(dev.canvas) >= 4
  /\ dev.canvas[Len(dev.canvas)].st = "draw"
  /\ dev.canvas[Len(dev.canvas)].src[2] > 1
  /\ dev.canvas[1] = Stage("image", <<2>>, << >>)
  /\ \E i \in 1..Len(dev.canvas) : dev.canvas[i].st = "blend"
  /\ \E i \in 1..Len(dev.canvas) : dev.canvas[i].st = "upsample"

\* C22: whenever render runs the halation passes, the processor's stored
\* image size is the renderer's image size and the work textures have that
\* size: the threshold and upsample-blend passes write textures as large as
\* the texture they read, which is as large as the uploaded image.
SameSize(a, b) ==
  dev.texData[a].w = dev.texData[b].w /\ dev.texData[a].h = dev.texData[b].h

C22_HalationSizedForImage ==
  /\ (isReady(hp) /\ rr.imageTexture # 0) =>
        /\ hp.imageWidth = rr.imageWidth
        /\ hp.imageHeight = rr.imageHeight
        /\ SameSize(hp.outputTexture, rr.imageTexture)
        /\ SameSize(hp.highlightTexture, rr.imageTexture)
  /\ (obs.lastRender # << >> /\ obs.lastRender[1].halation) =>
        LET lr == obs.lastRender[1]
        IN  \A i \in 1..Len(lr.passes) :
              lr.passes[i].pipe \in {"threshold", "upsample"} =>
                 /\ SameSize(lr.passes[i].in, lr.passes[i].out)
                 /\ SameSize(lr.passes[i].in, lr.imageTexture)

\* halation has run on the second image, whose size differs from the first
C22_Witness ==
  /\ obs.lastRender # << >>
  /\ obs.lastRender[1].halation
  /\ \E i \in 1..Len(obs.lastRender[1].passes) :
       obs.lastRender[1].passes[i].pipe = "upsample"
  /\ obs.texOps >= 2
  /\ rr.imageWidth = 6 /\ rr.imageHeight = 3
  /\ hp.imageWidth = 6

\* C23: every texel of the quarter-resolution buffer is the average of 16
\* texels that all lie inside the highlight texture, for every image size.
C23_DownsampleStaysInside ==
  (sh.fn = "downsample" /\ sh.out # << >>) =>
     \A gid \in DOMAIN sh.out[1] :
        /\ sh.out[1][gid].inside = 16
        /\ sh.out[1][gid].value = White

\* C26: the mip chain has floor(log2(max(w, h))) + 1 levels, each level has
\* half the size of the one below (rounded down, at least 1), and every
\* texel of a level is the average of a 2x2 block inside the level below.
C26_MipLevelsAverageInside ==
  (sh.fn = "mipmaps" /\ sh.out # << >>) =>
     /\ Len(sh.out[1]) + 1 = FloorLog2(Max(sh.in.w, sh.in.h)) + 1
     /\ \A k \in 1..Len(sh.out[1]) :
          /\ sh.out[1][k].width
               = Max(1, (IF k = 1 THEN sh.in.w ELSE sh.out[1][k - 1].width) \div 2)
          /\ sh.out[1][k].height
               = Max(1, (IF k = 1 THEN sh.in.h ELSE sh.out[1][k - 1].height) \div 2)
          /\ \A gid \in DOMAIN sh.out[1][k].texels :
               /\ sh.out[1][k].texels[gid].inside = 4
               /\ sh.out[1][k].texels[gid].value = White

\* C24: while showOriginal is set and the debug view is off, a render made
\* after the sync effects have run submits neither the blend pass nor a
\* halation pass and draws the uploaded image, whatever the toggles and
\* sliders are; the canvas then shows the image as uploaded.
C24_OriginalViewShowsUploadedImage ==
  (app.showOriginal /\ obs.lastRender # << >> /\ ~obs.lastRender[1].debug) =>
     LET lr == obs.lastRender[1]
     IN  /\ ~rr.blendParams.enabled
         /\ ~hp.params.enabled
         /\ \A i \in 1..Len(lr.passes) :
               lr.passes[i].pipe \notin {"blend"} \cup HalationPipes
         /\ lr.imageTexture # 0 =>
               /\ lr.passes[Len(lr.passes)].pipe = "draw"
               /\ lr.passes[Len(lr.passes)].in = lr.imageTexture
         /\ (dev.queue = << >> /\ lr.imageTexture # 0) =>
               /\ Len(dev.canvas) = 2
               /\ dev.canvas[1] = Stage("image", <<app.image.id>>, << >>)
               /\ dev.canvas[2].st = "draw"

\* the original is shown while grain, film and halation are all switched on
\* and tiles exist
C24_Witness ==
  /\ app.showOriginal
  /\ app.params.grainEnabled /\ app.params.grainStrength > 0
  /\ app.params.filmEnabled /\ app.params.filmToe > 0
  /\ app.params.halationEnabled
  /\ gg.lastParams # << >>
  /\ obs.lastRender # << >>
  /\ dev.queue = << >>
  /\ Len(dev.canvas) = 2
  /\ dev.canvas[2].st = "draw"

\* C25: once mounted, the renderer's blend parameters are those of the
\* enabled effects only: enabled iff the original is not shown and grain or
\* film is on; strength 0 when grain is off; toe 0 and midtoneBias 1 when
\* film is off; the slider values otherwise.
C25_DisabledEffectIsNeutral ==
  app.mounted =>
     LET p == app.params
         b == rr.blendParams
     IN  /\ b.enabled <=> (~app.showOriginal /\ (p.grainEnabled \/ p.filmEnabled))
         /\ ~p.grainEnabled => b.strength = 0
         /\ ~p.filmEnabled => (b.toe = 0 /\ b.midtoneBias = 1000)
         /\ p.grainEnabled => b.strength = p.grainStrength
         /\ p.filmEnabled => (b.toe = p.filmToe /\ b.midtoneBias = p.filmMidtoneBias)
         /\ b.saturation = p.grainSaturation

\* grain and film are both off while their sliders are away from neutral
C25_Witness ==
  /\ app.mounted
  /\ ~app.params.grainEnabled /\ app.params.grainStrength > 0
  /\ ~app.params.filmEnabled
  /\ app.params.filmToe > 0 /\ app.params.filmMidtoneBias # 1000
  /\ rr.blendParams.strength = 0 /\ rr.blendParams.toe = 0
  /\ rr.blendParams.midtoneBias = 1000
  /\ ~rr.blendParams.enabled

\* C27: when the promise of a debounced updateGrain resolves while a canvas
\* context is configured, the continuation calls render (which always
\* submits a command buffer).
GenerationResolves ==
  /\ js.gens # << >>
  /\ Head(js.gens).done
  /\ Len(js'.gens) < Len(js.gens)
  /\ obs'.lastSettled # << >>
  /\ obs'.lastSettled[1].ok
  /\ obs'.lastSettled[1].call = Head(js.gens).call

C27_RegenerationIsFollowedByRender ==
  [][ (GenerationResolves /\ app.canvasContext) =>
         Len(dev'.queue) > Len(dev.queue) ]_vars

\* C28: whenever no generation is in flight, no debounce timer is pending
\* and the device is idle, the seed of the generator's cache key, the seed
\* every layer of the tile array was generated from and grainParams.seed
\* are equal.
C28_QuiescentTilesMatchSeed ==
  ( /\ js.gens = << >> /\ js.timers = << >> /\ dev.queue = << >>
    /\ rr.grainParams # << >> /\ gg.lastParams # << >> ) =>
     /\ gg.lastParams[1].seed = rr.grainParams[1].seed
     /\ \A i \in 1..TILE_COUNT :
          TileSeeds(dev.texData, gg.grainTileArray)[i] = rr.grainParams[1].seed

QueueLive == \A i \in 1..Len(dev.queue) : dev.queue[i].live

\* a generateTiles call on a destroyed generator throws and records nothing
ThrowsAfterDestroy ==
  (~gg.buffersAlive /\ obs'.callCount > obs.callCount) =>
     /\ obs'.lastCall[1].kind = "throw"
     /\ dev'.queue = dev.queue

\* C29: in any interleaving of uploadImage, render, updateGrain and destroy,
\* every texture bound by a recorded pass is live when the pass is recorded,
\* and generateTiles called after destroy throws instead of recording passes.
C29_NoPassOnDestroyedTexture == []QueueLive /\ [][ThrowsAfterDestroy]_vars

ZoomInRange ==
  /\ IsNum(ci.viewState.zoom)
  /\ ci.viewState.zoom.v >= MIN_ZOOM
  /\ ci.viewState.zoom.v <= MAX_ZOOM

DragKeepsZoom ==
  (ci.last # << >> /\ ci.last[1].kind = "drag") =>
     ci.viewState.zoom = ci.last[1].zoom

\* C30: after any sequence of wheel zooms, pinch zooms, zoom-in and zoom-out
\* buttons, fit-to-window, actual-size and drags from the default view, the
\* view zoom is a number between 0.1 and 32, and a drag leaves zoom as it
\* found it.
C30_ZoomStaysInRange == ZoomInRange /\ DragKeepsZoom

====
